---- MODULE Spec2Model ----
(***************************************************************************)
(* Model of the KYC transcript pipeline of kyc_pdf_filler:                 *)
(*   TranscriptProcessor  (clean, identify speaker, segment, link Q/A),    *)
(*   KYCQuestionMatcher   (question pattern index),                        *)
(*   InformationExtractor (section extractors, normalizers, confidence),   *)
(*   KYCData              (completion percentage).                         *)
(* Python str values are TLA+ strings; a character is a string of length 1.*)
(* Python regular expressions are data (sequences of elements) interpreted *)
(* by a backtracking matcher with Python's priorities (leftmost start,     *)
(* alternatives in order, greedy repetition).                              *)
(***************************************************************************)
EXTENDS Integers, Sequences, FiniteSets, TLC

(* ----------------------------- characters ------------------------------ *)
Ch(s, i) == SubSeq(s, i, i)

CharsOf(s) == {Ch(s, i) : i \in 1..Len(s)}

Upper == CharsOf("ABCDEFGHIJKLMNOPQRSTUVWXYZ")

Lower == CharsOf("abcdefghijklmnopqrstuvwxyz")

Letter == Upper \cup Lower

Digit == CharsOf("0123456789")

Space == {" ", "\n", "\t"}

ToLower ==
    [c \in Upper |-> Ch("abcdefghijklmnopqrstuvwxyz",
                        CHOOSE i \in 1..26 : Ch("ABCDEFGHIJKLMNOPQRSTUVWXYZ", i) = c)]

ToUpper ==
    [c \in Lower |-> Ch("ABCDEFGHIJKLMNOPQRSTUVWXYZ",
                        CHOOSE i \in 1..26 : Ch("abcdefghijklmnopqrstuvwxyz", i) = c)]

LowerCh(c) == IF c \in Upper THEN ToLower[c] ELSE c

(* ------------------------- Python str methods -------------------------- *)
\* scans over a text split the index range in halves, so that the depth of
\* evaluation grows with the logarithm of the length of the text
RECURSIVE lower_range(_, _, _)
lower_range(s, lo, hi) ==
    IF lo > hi THEN ""
    ELSE IF lo = hi THEN LowerCh(Ch(s, lo))
    ELSE LET mid == (lo + hi) \div 2
         IN lower_range(s, lo, mid) \o lower_range(s, mid + 1, hi)

str_lower(s) == lower_range(s, 1, Len(s))

\* first position of lo..hi whose character is not in set (hi + 1 when there is none)
RECURSIVE FirstNotIn(_, _, _, _)
FirstNotIn(s, set, lo, hi) ==
    IF lo > hi THEN hi + 1
    ELSE IF lo = hi THEN (IF Ch(s, lo) \in set THEN hi + 1 ELSE lo)
    ELSE LET mid == (lo + hi) \div 2
             l == FirstNotIn(s, set, lo, mid)
         IN IF l <= mid THEN l ELSE FirstNotIn(s, set, mid + 1, hi)

\* last position of lo..hi whose character is not in set (lo - 1 when there is none)
RECURSIVE LastNotIn(_, _, _, _)
LastNotIn(s, set, lo, hi) ==
    IF lo > hi THEN lo - 1
    ELSE IF lo = hi THEN (IF Ch(s, lo) \in set THEN lo - 1 ELSE lo)
    ELSE LET mid == (lo + hi) \div 2
             r == LastNotIn(s, set, mid + 1, hi)
         IN IF r > mid THEN r ELSE LastNotIn(s, set, lo, mid)

str_strip(s) == SubSeq(s, FirstNotIn(s, Space, 1, Len(s)), LastNotIn(s, Space, 1, Len(s)))

\* str.title(): first letter of every run of letters upper-cased, the rest lower-cased
RECURSIVE title_range(_, _, _)
title_range(s, lo, hi) ==
    IF lo > hi THEN ""
    ELSE IF lo = hi
    THEN LET c == Ch(s, lo)
         IN IF c \notin Letter THEN c
            ELSE IF lo > 1 /\ Ch(s, lo - 1) \in Letter THEN LowerCh(c)
            ELSE IF c \in Lower THEN ToUpper[c] ELSE c
    ELSE LET mid == (lo + hi) \div 2
         IN title_range(s, lo, mid) \o title_range(s, mid + 1, hi)

str_title(s) == title_range(s, 1, Len(s))

\* first position of lo..hi where sub occurs (0 when there is none)
RECURSIVE find_in(_, _, _, _)
find_in(s, sub, lo, hi) ==
    IF lo > hi THEN 0
    ELSE IF lo = hi
    THEN (IF lo + Len(sub) - 1 <= Len(s) /\ SubSeq(s, lo, lo + Len(sub) - 1) = sub THEN lo ELSE 0)
    ELSE LET mid == (lo + hi) \div 2
             l == find_in(s, sub, lo, mid)
         IN IF l # 0 THEN l ELSE find_in(s, sub, mid + 1, hi)

\* keyword in text
str_contains(s, sub) == find_in(s, sub, 1, Len(s) + 1) # 0

\* str.split(sep) for a one-character separator
RECURSIVE split_from(_, _, _)
split_from(s, sep, i) ==
    LET k == find_in(s, sep, i, Len(s))
    IN IF k = 0 THEN <<SubSeq(s, i, Len(s))>>
       ELSE <<SubSeq(s, i, k - 1)>> \o split_from(s, sep, k + 1)

str_split(s, sep) == split_from(s, sep, 1)

\* sep.join(parts)
RECURSIVE str_join(_, _)
str_join(sep, parts) ==
    IF Len(parts) = 0 THEN ""
    ELSE IF Len(parts) = 1 THEN parts[1]
    ELSE parts[1] \o sep \o str_join(sep, Tail(parts))

(* --------------------------- regular expressions ----------------------- *)
Lit(x) == [t |-> "lit", s |-> x]

\* a character class repeated between min and max times (greedy)
Rep(set, lo, hi) == [t |-> "cls", cs |-> set, neg |-> FALSE, min |-> lo, max |-> hi, unb |-> FALSE]

One(set) == Rep(set, 1, 1)

Opt(set) == Rep(set, 0, 1)

Plus(set) == [t |-> "cls", cs |-> set, neg |-> FALSE, min |-> 1, max |-> 1, unb |-> TRUE]

Many(set) == [t |-> "cls", cs |-> set, neg |-> FALSE, min |-> 0, max |-> 0, unb |-> TRUE]

\* '.' is any character but a newline
Dot(lo, hi) == [t |-> "cls", cs |-> {"\n"}, neg |-> TRUE, min |-> lo, max |-> hi, unb |-> FALSE]

DotStar == [t |-> "cls", cs |-> {"\n"}, neg |-> TRUE, min |-> 0, max |-> 0, unb |-> TRUE]

\* (a|b|c) over sub-patterns, tried in order
Alt(alts) == [t |-> "alt", alts |-> alts]

\* (a|b|c) over literals
RECURSIVE lits(_)
lits(ws) == IF Len(ws) = 0 THEN <<>> ELSE <<(<<Lit(Head(ws))>>)>> \o lits(Tail(ws))

AltLit(ws) == Alt(lits(ws))

\* (?:body)? and (?:body)*
Maybe(body) == Alt(<<body, <<>> >>)

Star(body) == [t |-> "star", body |-> body]

\* capture group n: it opens, body, it closes
Group(n, body) == <<[t |-> "open", n |-> n]>> \o body \o <<[t |-> "close", n |-> n]>>

Bol == [t |-> "bol"]

Wb == [t |-> "wb"]

NoGroups == [n \in 1..3 |-> <<0, 0>>]

NoMatch == [ok |-> FALSE, start |-> 0, end |-> 0, g |-> NoGroups]

InClass(c, e, ci) ==
    LET swapped == IF c \in Upper THEN ToLower[c] ELSE IF c \in Lower THEN ToUpper[c] ELSE c
        m == c \in e.cs \/ (ci /\ swapped \in e.cs)
    IN IF e.neg THEN ~m ELSE m

LitAt(s, i, lit, ci) ==
    /\ i + Len(lit) - 1 <= Len(s)
    /\ IF ci THEN str_lower(SubSeq(s, i, i + Len(lit) - 1)) = str_lower(lit)
       ELSE SubSeq(s, i, i + Len(lit) - 1) = lit

IsWordAt(s, i) == i >= 1 /\ i <= Len(s) /\ Ch(s, i) \in Letter \cup Digit \cup {"_"}

\* first position of lo..hi whose character is outside class e (hi + 1 when there is none)
RECURSIVE FirstOut(_, _, _, _, _)
FirstOut(s, e, ci, lo, hi) ==
    IF lo > hi THEN hi + 1
    ELSE IF lo = hi THEN (IF InClass(Ch(s, lo), e, ci) THEN hi + 1 ELSE lo)
    ELSE LET mid == (lo + hi) \div 2
             l == FirstOut(s, e, ci, lo, mid)
         IN IF l <= mid THEN l ELSE FirstOut(s, e, ci, mid + 1, hi)

\* number of consecutive characters of class e from position i (at most e.max unless unbounded)
RunLen(s, i, e, ci) ==
    LET last == IF e.unb \/ i + e.max - 1 > Len(s) THEN Len(s) ELSE i + e.max - 1
    IN FirstOut(s, e, ci, i, last) - i

RECURSIVE re_at(_, _, _, _, _)
RECURSIVE re_rep(_, _, _, _, _, _, _)
RECURSIVE re_alt(_, _, _, _, _, _, _)
\* match pattern p against s at position i; g holds the capture groups so far
re_at(p, s, i, ci, g) ==
    IF Len(p) = 0 THEN [ok |-> TRUE, start |-> 0, end |-> i, g |-> g]
    ELSE LET e == Head(p)
             rest == Tail(p)
         IN CASE e.t = "lit" ->
                    IF LitAt(s, i, e.s, ci) THEN re_at(rest, s, i + Len(e.s), ci, g) ELSE NoMatch
              [] e.t = "cls" -> re_rep(rest, s, i, ci, g, e.min, RunLen(s, i, e, ci))
              [] e.t = "alt" -> re_alt(e.alts, 1, rest, s, i, ci, g)
              [] e.t = "star" ->
                    LET r == re_at(e.body \o <<e>> \o rest, s, i, ci, g)
                    IN IF r.ok THEN r ELSE re_at(rest, s, i, ci, g)
              [] e.t = "open" -> re_at(rest, s, i, ci, [g EXCEPT ![e.n] = <<i, i>>])
              [] e.t = "close" -> re_at(rest, s, i, ci, [g EXCEPT ![e.n] = <<@[1], i>>])
              [] e.t = "bol" -> IF i = 1 THEN re_at(rest, s, i, ci, g) ELSE NoMatch
              [] e.t = "wb" ->
                    IF IsWordAt(s, i - 1) # IsWordAt(s, i) THEN re_at(rest, s, i, ci, g) ELSE NoMatch

\* greedy repetition: of the repetition counts lo..hi, the largest after which the rest matches
re_rep(rest, s, i, ci, g, lo, hi) ==
    IF lo > hi THEN NoMatch
    ELSE IF lo = hi THEN re_at(rest, s, i + lo, ci, g)
    ELSE LET mid == (lo + hi) \div 2
             r == re_rep(rest, s, i, ci, g, mid + 1, hi)
         IN IF r.ok THEN r ELSE re_rep(rest, s, i, ci, g, lo, mid)

re_alt(alts, k, rest, s, i, ci, g) ==
    IF k > Len(alts) THEN NoMatch
    ELSE LET r == re_at(alts[k] \o rest, s, i, ci, g)
         IN IF r.ok THEN r ELSE re_alt(alts, k + 1, rest, s, i, ci, g)

\* re.match: anchored at the start of s
re_match(p, s, ci) ==
    LET r == re_at(p, s, 1, ci, NoGroups) IN IF r.ok THEN [r EXCEPT !.start = 1] ELSE NoMatch

\* the leftmost position of lo..hi where p matches
RECURSIVE re_search_in(_, _, _, _, _)
re_search_in(p, s, ci, lo, hi) ==
    IF lo > hi THEN NoMatch
    ELSE IF lo = hi
    THEN LET r == re_at(p, s, lo, ci, NoGroups) IN IF r.ok THEN [r EXCEPT !.start = lo] ELSE NoMatch
    ELSE LET mid == (lo + hi) \div 2
             l == re_search_in(p, s, ci, lo, mid)
         IN IF l.ok THEN l ELSE re_search_in(p, s, ci, mid + 1, hi)

\* re.search
re_search(p, s, ci) == re_search_in(p, s, ci, 1, Len(s) + 1)

\* re.sub(p, repl, s): every non-overlapping match, left to right
\* (no pattern of the program matches the empty string)
RECURSIVE re_sub_from(_, _, _, _, _)
re_sub_from(p, repl, s, ci, i) ==
    LET m == re_search_in(p, s, ci, i, Len(s))
    IN IF ~m.ok THEN SubSeq(s, i, Len(s))
       ELSE SubSeq(s, i, m.start - 1) \o repl \o re_sub_from(p, repl, s, ci, m.end)

re_sub(p, repl, s, ci) == re_sub_from(p, repl, s, ci, 1)

\* match.group(n) and match.group(0)
group(s, m, n) == SubSeq(s, m.g[n][1], m.g[n][2] - 1)

group0(s, m) == SubSeq(s, m.start, m.end - 1)

(* ------------------------------ Python values ------------------------- *)
\* values are tagged with their Python type; floats are held in hundredths
\* (every amount of the model has at most two decimals)
None == [ty |-> "NoneType"]

PyStr(s) == [ty |-> "str", v |-> s]

PyFloat(hundredths) == [ty |-> "float", v |-> hundredths]

PyEnum(name) == [ty |-> "enum", v |-> name]

PyDate(y, m, d) == [ty |-> "date", year |-> y, month |-> m, day |-> d]

\* an exception propagating out of a call
Raise(exc) == [ty |-> "raise", exc |-> exc]

IsRaise(x) == x.ty = "raise"

\* bool(x) as used by "if value:" and "and current_question"
Truthy(x) ==
    CASE x.ty = "NoneType" -> FALSE
      [] x.ty = "str" -> Len(x.v) > 0
      [] x.ty = "float" -> x.v # 0
      [] x.ty = "int" -> x.v # 0
      [] x.ty = "bool" -> x.v
      [] x.ty = "list" -> Len(x.v) > 0
      [] x.ty = "enum" -> TRUE
      [] x.ty = "date" -> TRUE
      [] x.ty = "raise" -> FALSE

(* =========================== TranscriptProcessor ======================= *)
\* self.speaker_patterns, in list order
speaker_patterns ==
    << [pattern |-> <<Bol>> \o Group(1, <<AltLit(<<"Advisor", "FA", "Financial Advisor">>)>>)
                       \o <<One({":"}), Many(Space)>>,
        speaker_type |-> "advisor"],
       [pattern |-> <<Bol>> \o Group(1, <<AltLit(<<"Client", "Customer", "Mr.", "Mrs.", "Ms.">>)>>)
                       \o <<One({":"}), Many(Space)>>,
        speaker_type |-> "client"],
       [pattern |-> <<Bol>> \o Group(1, <<One(Upper), Plus(Lower)>>) \o <<One({":"}), Many(Space)>>,
        speaker_type |-> "unknown"] >>

\* self.question_indicators, in list order
question_indicators ==
    << <<Lit("?")>>,
       <<Bol>> \o Group(1, <<AltLit(<<"What", "How", "When", "Where", "Why", "Who", "Which",
                                     "Can you", "Could you", "Would you", "Do you", "Are you",
                                     "Have you">>)>>),
       Group(1, <<AltLit(<<"tell me", "explain", "describe", "share">>)>>) >>

artifact_pattern == <<AltLit(<<"[inaudible]", "[unclear]", "[crosstalk]">>)>>

timestamp_pattern ==
    <<Lit("["), Rep(Digit, 2, 2), Lit(":"), Rep(Digit, 2, 2), Lit(":"), Rep(Digit, 2, 2), Lit("]")>>

filler_patterns ==
    << <<Wb>> \o Group(1, <<AltLit(<<"um", "uh", "ah", "er", "hmm">>)>>) \o <<Wb>>,
       <<Wb>> \o Group(1, <<AltLit(<<"you know", "like", "basically", "actually">>)>>) \o <<Wb>> >>

\* the substitutions of clean_transcript, the innermost first
clean_transcript(raw_transcript) ==
    str_strip(
        re_sub(<<Plus(Space)>>, " ",
            re_sub(filler_patterns[2], "",
                re_sub(filler_patterns[1], "",
                    re_sub(timestamp_pattern, "",
                        re_sub(artifact_pattern, "",
                            re_sub(<<Plus(Space)>>, " ", raw_transcript, FALSE),
                            TRUE),
                        FALSE),
                    TRUE),
                TRUE),
            FALSE))

RECURSIVE identify_from(_, _)
identify_from(text, k) ==
    IF k > Len(speaker_patterns) THEN <<"unknown", str_strip(text)>>
    ELSE IF re_match(speaker_patterns[k].pattern, text, TRUE).ok
         THEN <<speaker_patterns[k].speaker_type,
                str_strip(re_sub(speaker_patterns[k].pattern, "", text, TRUE))>>
         ELSE identify_from(text, k + 1)

\* returns <<speaker_type, content>>
identify_speaker(text) == identify_from(text, 1)

is_question(text) ==
    \E k \in 1..Len(question_indicators) : re_search(question_indicators[k], text, TRUE).ok

\* segment_type_of with the question test made before the speaker is looked at
segment_type_by_content(speaker_type, content) ==
    IF is_question(content) THEN "question"
    ELSE IF speaker_type = "client" THEN "answer"
    ELSE "statement"

\* the type given to a line by its speaker and content
segment_type_of(speaker_type, content) ==
    IF speaker_type = "advisor" /\ is_question(content) THEN "question"
    ELSE IF speaker_type = "client" THEN "answer"
    ELSE "statement"

TranscriptSegment(speaker, content, segment_type) ==
    [speaker |-> speaker, content |-> content, timestamp |-> None, segment_type |-> segment_type]

\* the segment made of the <<speaker_type, content>> that identify_speaker returns
segment_of(sc) == TranscriptSegment(sc[1], sc[2], segment_type_of(sc[1], sc[2]))

RECURSIVE segment_lines(_)
segment_lines(lines) ==
    IF Len(lines) = 0 THEN <<>>
    ELSE IF Len(str_strip(Head(lines))) = 0 THEN segment_lines(Tail(lines))
    ELSE <<segment_of(identify_speaker(str_strip(Head(lines))))>> \o segment_lines(Tail(lines))

segment_transcript(transcript) == segment_lines(str_split(transcript, "\n"))

\* link_step keeping only the latest pair
link_step_latest_only(st, segment) ==
    IF segment.segment_type = "question"
    THEN [st EXCEPT !.current_question = PyStr(segment.content)]
    ELSE IF segment.segment_type = "answer" /\ Truthy(st.current_question)
    THEN [current_question |-> None,
          qa_pairs |-> <<[question |-> st.current_question.v, answer |-> segment.content]>>]
    ELSE st

\* link_step pairing every answer, held question or not
link_step_unguarded(st, segment) ==
    IF segment.segment_type = "question"
    THEN [st EXCEPT !.current_question = PyStr(segment.content)]
    ELSE IF segment.segment_type = "answer"
    THEN [current_question |-> None,
          qa_pairs |-> Append(st.qa_pairs,
                              [question |-> IF Truthy(st.current_question)
                                            THEN st.current_question.v ELSE "",
                               answer |-> segment.content])]
    ELSE st

\* link_step leaving the question held after it is answered
link_step_no_reset(st, segment) ==
    IF segment.segment_type = "question"
    THEN [st EXCEPT !.current_question = PyStr(segment.content)]
    ELSE IF segment.segment_type = "answer" /\ Truthy(st.current_question)
    THEN [st EXCEPT !.qa_pairs = Append(st.qa_pairs,
                                        [question |-> st.current_question.v,
                                         answer |-> segment.content])]
    ELSE st

\* link_step keeping the question held when another question arrives
link_step_keep_first(st, segment) ==
    IF segment.segment_type = "question"
    THEN (IF Truthy(st.current_question) THEN st
          ELSE [st EXCEPT !.current_question = PyStr(segment.content)])
    ELSE IF segment.segment_type = "answer" /\ Truthy(st.current_question)
    THEN [current_question |-> None,
          qa_pairs |-> Append(st.qa_pairs,
                              [question |-> st.current_question.v, answer |-> segment.content])]
    ELSE st

\* link_step dropping the held question at a statement
link_step_statement_resets(st, segment) ==
    IF segment.segment_type = "question"
    THEN [st EXCEPT !.current_question = PyStr(segment.content)]
    ELSE IF segment.segment_type = "answer" /\ Truthy(st.current_question)
    THEN [current_question |-> None,
          qa_pairs |-> Append(st.qa_pairs,
                              [question |-> st.current_question.v, answer |-> segment.content])]
    ELSE IF segment.segment_type = "answer" THEN st
    ELSE [st EXCEPT !.current_question = None]

\* one iteration of the loop of extract_qa_pairs over the local state
\* st = [current_question, qa_pairs]
link_step(st, segment) ==
    IF segment.segment_type = "question"
    THEN [st EXCEPT !.current_question = PyStr(segment.content)]
    ELSE IF segment.segment_type = "answer" /\ Truthy(st.current_question)
    THEN [current_question |-> None,
          qa_pairs |-> Append(st.qa_pairs,
                              [question |-> st.current_question.v, answer |-> segment.content])]
    ELSE st

RECURSIVE link_from(_, _)
link_from(st, segs) == IF Len(segs) = 0 THEN st ELSE link_from(link_step(st, Head(segs)), Tail(segs))

\* qa_pairs = []; current_question = None; the loop; return qa_pairs
extract_qa_pairs(segs) == link_from([current_question |-> None, qa_pairs |-> <<>>], segs).qa_pairs

RECURSIVE extract_client_statements(_)
extract_client_statements(segs) ==
    IF Len(segs) = 0 THEN <<>>
    ELSE (IF Head(segs).speaker = "client" THEN <<Head(segs).content>> ELSE <<>>)
         \o extract_client_statements(Tail(segs))

(* =========================== KYCQuestionMatcher ======================== *)
\* self.kyc_question_patterns, in dictionary order
kyc_question_patterns ==
    << [field |-> "personal_info.first_name",
        patterns |-> << Group(1, <<AltLit(<<"what is", "what's", "can you tell me">>)>>)
                            \o <<Lit(" your first name")>>,
                        <<Lit("your first name ")>> \o Group(1, <<AltLit(<<"is", "please">>)>>),
                        <<Lit("name"), DotStar, Lit("first")>> >>],
       [field |-> "personal_info.last_name",
        patterns |-> << Group(1, <<AltLit(<<"what is", "what's">>)>>) \o <<Lit(" your last name")>>,
                        <<AltLit(<<"surname", "family name">>)>>,
                        <<Lit("last name")>> >>],
       [field |-> "personal_info.date_of_birth",
        patterns |-> << <<AltLit(<<"date of birth", "birth date", "when were you born">>)>>,
                        <<Lit("what is your birthday")>>,
                        <<AltLit(<<"age", "how old">>)>> >>],
       [field |-> "personal_info.phone_number",
        patterns |-> << <<AltLit(<<"phone number", "contact number", "telephone">>)>>,
                        <<Lit("how can we reach you")>>,
                        <<Lit("best number to call")>> >>],
       [field |-> "personal_info.email",
        patterns |-> << <<AltLit(<<"email address", "e-mail">>)>>,
                        <<Lit("electronic mail")>>,
                        <<Lit("email")>> >>],
       [field |-> "personal_info.marital_status",
        patterns |-> << <<AltLit(<<"marital status", "married", "single">>)>>,
                        <<AltLit(<<"spouse", "partner", "wife", "husband">>)>>,
                        <<Lit("relationship status")>> >>],
       [field |-> "employment_info.employment_status",
        patterns |-> << <<AltLit(<<"employment status", "work", "job">>)>>,
                        <<AltLit(<<"are you employed", "working">>)>>,
                        <<AltLit(<<"occupation", "profession">>)>> >>],
       [field |-> "employment_info.annual_income",
        patterns |-> << <<AltLit(<<"annual income", "yearly income", "salary">>)>>,
                        <<AltLit(<<"how much do you make", "earn">>)>>,
                        <<AltLit(<<"income", "earnings">>)>> >>],
       [field |-> "employment_info.net_worth",
        patterns |-> << <<AltLit(<<"net worth", "total assets">>)>>,
                        <<AltLit(<<"financial worth", "wealth">>)>>,
                        <<Lit("assets"), DotStar, Lit("liabilities")>> >>],
       [field |-> "investment_profile.risk_tolerance",
        patterns |-> << <<AltLit(<<"risk tolerance", "comfort with risk">>)>>,
                        <<AltLit(<<"conservative", "aggressive", "moderate">>)>>,
                        <<Lit("risk appetite")>> >>],
       [field |-> "investment_profile.investment_objective",
        patterns |-> << <<Lit("investment ")>> \o Group(1, <<AltLit(<<"goal", "objective", "purpose">>)>>),
                        <<Lit("what are you looking to achieve")>>,
                        <<Lit("financial goals")>> >>],
       [field |-> "investment_profile.investment_experience",
        patterns |-> << <<AltLit(<<"investment experience", "investing experience">>)>>,
                        <<Lit("how long have you been investing")>>,
                        <<Lit("previous investments")>> >>] >>

\* does the question of the pair match one of the patterns (first match ends the scan)
\* question_matches looking at the answer of the pair as well
question_or_answer_matches(patterns, qa_pair) ==
    \E k \in 1..Len(patterns) :
        \/ re_search(patterns[k], str_lower(qa_pair.question), TRUE).ok
        \/ re_search(patterns[k], str_lower(qa_pair.answer), TRUE).ok

question_matches(patterns, qa_pair) ==
    LET question == str_lower(qa_pair.question)
    IN \E k \in 1..Len(patterns) : re_search(patterns[k], question, TRUE).ok

RECURSIVE matching_pairs(_, _)
matching_pairs(patterns, qa_pairs) ==
    IF Len(qa_pairs) = 0 THEN <<>>
    ELSE (IF question_matches(patterns, Head(qa_pairs)) THEN <<Head(qa_pairs)>> ELSE <<>>)
         \o matching_pairs(patterns, Tail(qa_pairs))

\* field_matches: KYC field -> list of Q&A pairs
match_questions_to_kyc_fields(qa_pairs) ==
    [f \in {kyc_question_patterns[k].field : k \in 1..Len(kyc_question_patterns)} |->
        LET k == CHOOSE j \in 1..Len(kyc_question_patterns) : kyc_question_patterns[j].field = f
        IN matching_pairs(kyc_question_patterns[k].patterns, qa_pairs)]

(* ========================== InformationExtractor ======================= *)
ExtractionPattern(field_name, patterns, extractor_type, post_process_func) ==
    [field_name |-> field_name, patterns |-> patterns, extractor_type |-> extractor_type,
     post_process_func |-> post_process_func]

Name == <<One(Upper), Plus(Lower)>>

PhoneSep == Opt({"-", "."} \cup Space)

Amount == <<Plus(Digit \cup {","})>>

\* self.extraction_patterns, in dictionary order
extraction_pattern_names ==
    <<"first_name", "last_name", "phone_number", "email", "date_of_birth", "annual_income", "net_worth">>

extraction_patterns ==
    [first_name |-> ExtractionPattern("first_name",
        << <<AltLit(<<"my", "i'm", "i am", "name is", "call me">>), Plus(Space)>> \o Group(1, Name),
           <<Lit("first name"), Dot(0, 10)>> \o Group(1, Name) >>,
        "regex", "clean_name"),
     last_name |-> ExtractionPattern("last_name",
        << <<Lit("last name"), Dot(0, 10)>> \o Group(1, Name),
           Group(1, Name) \o <<Plus(Space), Lit("is my last name")>> >>,
        "regex", "clean_name"),
     phone_number |-> ExtractionPattern("phone_number",
        << Group(1, <<Rep(Digit, 3, 3), PhoneSep, Rep(Digit, 3, 3), PhoneSep, Rep(Digit, 4, 4)>>),
           Group(1, <<Lit("("), Rep(Digit, 3, 3), Lit(")"), Opt(Space), Rep(Digit, 3, 3), PhoneSep,
                      Rep(Digit, 4, 4)>>) >>,
        "regex", "format_phone"),
     email |-> ExtractionPattern("email",
        << Group(1, <<Plus(Letter \cup Digit \cup {".", "_", "%", "+", "-"}), Lit("@"),
                      Plus(Letter \cup Digit \cup {".", "-"}), Lit("."), [Plus(Letter) EXCEPT !.min = 2, !.max = 2]>>) >>,
        "regex", "clean_email"),
     date_of_birth |-> ExtractionPattern("date_of_birth",
        << Group(1, <<Rep(Digit, 1, 2), Lit("/"), Rep(Digit, 1, 2), Lit("/"), Rep(Digit, 4, 4)>>),
           Group(1, <<Rep(Digit, 1, 2), Lit("-"), Rep(Digit, 1, 2), Lit("-"), Rep(Digit, 4, 4)>>),
           Group(1, <<Lit("born"), Dot(0, 20), Rep(Digit, 4, 4)>>),
           Group(1, <<Rep(Digit, 1, 2), Plus(Space), AltLit(<<"years", "yrs">>), Plus(Space),
                      Lit("old")>>) >>,
        "regex", "parse_date"),
     annual_income |-> ExtractionPattern("annual_income",
        << <<AltLit(<<"make", "earn", "income">>), Dot(0, 20), Opt({"$"})>> \o Group(1, Amount),
           <<Lit("$")>> \o Group(1, Amount) \o <<Dot(0, 20), AltLit(<<"year", "annual">>)>>,
           Group(1, Amount) \o <<Dot(0, 10), AltLit(<<"thousand", "k", "million", "m">>), Dot(0, 10),
                                 AltLit(<<"year", "annual">>)>> >>,
        "regex", "parse_currency"),
     net_worth |-> ExtractionPattern("net_worth",
        << <<Lit("net worth"), Dot(0, 20), Opt({"$"})>> \o Group(1, Amount),
           <<Lit("worth"), Dot(0, 20), Opt({"$"})>> \o Group(1, Amount),
           <<Lit("assets"), Dot(0, 20), Opt({"$"})>> \o Group(1, Amount) >>,
        "regex", "parse_currency")]

\* int(str) of a string of decimal digits
RECURSIVE str_int(_)
str_int(s) ==
    IF Len(s) = 0 THEN 0
    ELSE 10 * str_int(SubSeq(s, 1, Len(s) - 1))
         + (CHOOSE d \in 0..9 : Ch("0123456789", d + 1) = Ch(s, Len(s)))

\* float(str) of "digits" or "digits.digits", in hundredths
str_float(s) ==
    LET dot == find_in(s, ".", 1, Len(s))
        whole == IF dot = 0 THEN s ELSE SubSeq(s, 1, dot - 1)
        frac == IF dot = 0 THEN "" ELSE SubSeq(s, dot + 1, Len(s))
        frac2 == SubSeq(frac \o "00", 1, 2)
    IN 100 * str_int(whole) + str_int(frac2)

\* datetime.date(year, month, day): raises ValueError outside the calendar
py_date(y, m, d) ==
    IF /\ y >= 1 /\ y <= 9999 /\ m >= 1 /\ m <= 12 /\ d >= 1
       /\ d <= (IF m = 2 THEN (IF (y % 4 = 0 /\ y % 100 # 0) \/ y % 400 = 0 THEN 29 ELSE 28)
                ELSE IF m \in {4, 6, 9, 11} THEN 30 ELSE 31)
    THEN PyDate(y, m, d)
    ELSE Raise("ValueError")

date_patterns ==
    << Group(1, <<Rep(Digit, 1, 2)>>) \o <<Lit("/")>> \o Group(2, <<Rep(Digit, 1, 2)>>) \o <<Lit("/")>>
           \o Group(3, <<Rep(Digit, 4, 4)>>),
       Group(1, <<Rep(Digit, 1, 2)>>) \o <<Lit("-")>> \o Group(2, <<Rep(Digit, 1, 2)>>) \o <<Lit("-")>>
           \o Group(3, <<Rep(Digit, 4, 4)>>) >>

age_pattern ==
    Group(1, <<Rep(Digit, 1, 2)>>) \o <<Plus(Space), AltLit(<<"years", "yrs">>), Plus(Space), Lit("old")>>

\* parse_date without the try/except around date(): the ValueError of the first
\* matching pattern leaves the call
parse_date_uncaught(value, now) ==
    LET m1 == re_search(date_patterns[1], value, FALSE)
        m2 == re_search(date_patterns[2], value, FALSE)
        age_match == re_search(age_pattern, value, FALSE)
    IN IF m1.ok
       THEN py_date(str_int(group(value, m1, 3)), str_int(group(value, m1, 1)),
                    str_int(group(value, m1, 2)))
       ELSE IF m2.ok
       THEN py_date(str_int(group(value, m2, 3)), str_int(group(value, m2, 1)),
                    str_int(group(value, m2, 2)))
       ELSE IF age_match.ok
       THEN py_date(now.year - str_int(group(value, age_match, 1)), 1, 1)
       ELSE None

\* parse_date trying M-D-YYYY before M/D/YYYY
parse_date_dash_first(value, now) ==
    LET m1 == re_search(date_patterns[2], value, FALSE)
        m2 == re_search(date_patterns[1], value, FALSE)
        d1 == py_date(str_int(group(value, m1, 3)), str_int(group(value, m1, 1)),
                      str_int(group(value, m1, 2)))
        d2 == py_date(str_int(group(value, m2, 3)), str_int(group(value, m2, 1)),
                      str_int(group(value, m2, 2)))
        age_match == re_search(age_pattern, value, FALSE)
    IN IF m1.ok /\ ~IsRaise(d1) THEN d1
       ELSE IF m2.ok /\ ~IsRaise(d2) THEN d2
       ELSE IF age_match.ok
       THEN py_date(now.year - str_int(group(value, age_match, 1)), 1, 1)
       ELSE None

\* now is the wall clock read by datetime.now(), a record [year, tick]
\* birth_year = datetime.now().year - age; date(birth_year, 1, 1)
date_of_age(value, now, age_match) ==
    IF age_match.ok THEN py_date(now.year - str_int(group(value, age_match, 1)), 1, 1)
    ELSE None

\* the loop over date_patterns, then the age branch
RECURSIVE parse_date_from(_, _, _)
\* month, day, year = map(int, match.groups()); date(year, month, day);
\* the try/except of the loop: a ValueError moves on to the next pattern
date_of_match(value, now, k, m) ==
    IF ~m.ok THEN parse_date_from(value, now, k + 1)
    ELSE LET d == py_date(str_int(group(value, m, 3)), str_int(group(value, m, 1)),
                          str_int(group(value, m, 2)))
         IN IF IsRaise(d) THEN parse_date_from(value, now, k + 1) ELSE d

parse_date_from(value, now, k) ==
    IF k > Len(date_patterns)
    THEN date_of_age(value, now, re_search(age_pattern, value, FALSE))
    ELSE date_of_match(value, now, k, re_search(date_patterns[k], value, FALSE))

parse_date(value, now) == parse_date_from(value, now, 1)

\* currency_amount with the test for "m" made before the test for "k"
currency_amount_m_first(value_clean, numeric) ==
    LET lower == str_lower(value_clean)
        number == str_float(group(value_clean, numeric, 1))
    IN IF str_contains(lower, "m") THEN (IF numeric.ok THEN PyFloat(number * 1000000) ELSE None)
       ELSE IF str_contains(lower, "k") THEN (IF numeric.ok THEN PyFloat(number * 1000) ELSE None)
       ELSE IF numeric.ok THEN PyFloat(number)
       ELSE None

\* the amount of value_clean, given the match of (\d+(?:\.\d+)?) in it
currency_amount(value_clean, numeric) ==
    LET lower == str_lower(value_clean)
        number == str_float(group(value_clean, numeric, 1))
    IN IF str_contains(lower, "k") THEN (IF numeric.ok THEN PyFloat(number * 1000) ELSE None)
       ELSE IF str_contains(lower, "m") THEN (IF numeric.ok THEN PyFloat(number * 1000000) ELSE None)
       ELSE IF numeric.ok THEN PyFloat(number)
       ELSE None

currency_of(value_clean) ==
    currency_amount(value_clean,
                    re_search(Group(1, <<Plus(Digit), Maybe(<<Lit("."), Plus(Digit)>>)>>),
                              value_clean, FALSE))

parse_currency(value) == currency_of(re_sub(<<One({",", "$"})>>, "", value, FALSE))

\* phone_of_digits returning the stripped digits when there are not ten of them
phone_digits_stripped(value, digits) ==
    IF Len(digits) = 10
    THEN PyStr("(" \o SubSeq(digits, 1, 3) \o ") " \o SubSeq(digits, 4, 6) \o "-"
               \o SubSeq(digits, 7, 10))
    ELSE PyStr(digits)

phone_of_digits(value, digits) ==
    IF Len(digits) = 10
    THEN PyStr("(" \o SubSeq(digits, 1, 3) \o ") " \o SubSeq(digits, 4, 6) \o "-"
               \o SubSeq(digits, 7, 10))
    ELSE PyStr(value)

format_phone(value) == phone_of_digits(value, re_sub(<<[One(Digit) EXCEPT !.neg = TRUE]>>, "", value, FALSE))

_post_process(value, func_name, now) ==
    CASE func_name = "clean_name" -> PyStr(str_title(str_strip(value)))
      [] func_name = "format_phone" -> format_phone(value)
      [] func_name = "clean_email" -> PyStr(str_strip(str_lower(value)))
      [] func_name = "parse_date" -> parse_date(value, now)
      [] func_name = "parse_currency" -> parse_currency(value)
      [] OTHER -> PyStr(value)

\* the first regex that matches decides the value, whatever the post-processing makes of it
RECURSIVE extract_regex_from(_, _, _, _)
\* the value of the first pattern that matches: match is the result of re.search for the k-th
value_of_match(text, pattern, now, k, match) ==
    IF ~match.ok THEN extract_regex_from(text, pattern, now, k + 1)
    ELSE LET value == IF \E g \in 1..Len(pattern.patterns[k]) : pattern.patterns[k][g].t = "open" THEN group(text, match, 1)
                      ELSE group0(text, match)
         IN IF pattern.post_process_func # ""
            THEN _post_process(value, pattern.post_process_func, now)
            ELSE PyStr(value)

extract_regex_from(text, pattern, now, k) ==
    IF k > Len(pattern.patterns) THEN None
    ELSE value_of_match(text, pattern, now, k, re_search(pattern.patterns[k], text, TRUE))

\* no pattern of the table has extractor_type "ner"
_extract_with_pattern(text, pattern, now) ==
    IF pattern.extractor_type = "regex" THEN extract_regex_from(text, pattern, now, 1) ELSE None

\* status_map, in dictionary order
status_map ==
    << <<"single", "SINGLE">>, <<"married", "MARRIED">>, <<"divorced", "DIVORCED">>,
       <<"widowed", "WIDOWED">>, <<"separated", "SEPARATED">> >>

RECURSIVE first_keyword_from(_, _, _)
first_keyword_from(table, text_lower, k) ==
    IF k > Len(table) THEN None
    ELSE IF str_contains(text_lower, table[k][1]) THEN PyEnum(table[k][2])
    ELSE first_keyword_from(table, text_lower, k + 1)

_extract_field_from_answer(field_name, answer, now) ==
    IF field_name = "marital_status" THEN first_keyword_from(status_map, str_lower(answer), 1)
    ELSE IF field_name \in DOMAIN extraction_patterns
    THEN _extract_with_pattern(answer, extraction_patterns[field_name], now)
    ELSE PyStr(str_strip(answer))

(* -------------------------------- models ------------------------------- *)
\* pydantic models as records of their declared fields with their defaults;
\* assignment to a field and passing a model instance to another model do not validate
PersonalInfo ==
    [first_name |-> None, last_name |-> None, middle_name |-> None, date_of_birth |-> None,
     social_security_number |-> None, phone_number |-> None, email |-> None,
     marital_status |-> None, number_of_dependents |-> None]

Address ==
    [street_address |-> None, city |-> None, state |-> None, zip_code |-> None,
     country |-> PyStr("USA"), is_mailing_address |-> [ty |-> "bool", v |-> TRUE]]

EmploymentInfo ==
    [employment_status |-> None, employer_name |-> None, job_title |-> None,
     years_employed |-> None, annual_income |-> None, net_worth |-> None,
     liquid_net_worth |-> None]

InvestmentProfile ==
    [investment_objective |-> None, risk_tolerance |-> None, investment_experience_years |-> None,
     investment_knowledge_level |-> None, previous_investment_types |-> [ty |-> "list", v |-> <<>>],
     time_horizon |-> None, liquidity_needs |-> None]

\* form_completion_date defaults to datetime.now()
KYCData(personal_info, address, employment_info, investment_profile, now) ==
    [personal_info |-> personal_info, address |-> address, employment_info |-> employment_info,
     investment_profile |-> investment_profile, additional_notes |-> None,
     form_completion_date |-> now]

\* the two counters of get_completion_percentage: nested models are dicts in self.dict(),
\* every other top-level field counts as one field
total_fields(kyc_data) ==
    Cardinality(DOMAIN kyc_data.personal_info) + Cardinality(DOMAIN kyc_data.address)
    + Cardinality(DOMAIN kyc_data.employment_info) + Cardinality(DOMAIN kyc_data.investment_profile)
    + Cardinality(DOMAIN kyc_data
                  \ {"personal_info", "address", "employment_info", "investment_profile"})

filled(section) == Cardinality({f \in DOMAIN section : section[f] # None})

completed_fields(kyc_data) ==
    filled(kyc_data.personal_info) + filled(kyc_data.address) + filled(kyc_data.employment_info)
    + filled(kyc_data.investment_profile)
    + (IF kyc_data.additional_notes # None THEN 1 ELSE 0)
    \* form_completion_date is a datetime, never None
    + 1

\* (completed_fields / total_fields) * 100, in hundredths, rounded down
get_completion_percentage(kyc_data) ==
    IF total_fields(kyc_data) > 0
    THEN PyFloat((completed_fields(kyc_data) * 10000) \div total_fields(kyc_data))
    ELSE PyFloat(0)

\* str(n) for n >= 0
RECURSIVE int_str(_)
int_str(n) ==
    IF n < 10 THEN Ch("0123456789", n + 1)
    ELSE int_str(n \div 10) \o Ch("0123456789", (n % 10) + 1)

\* f"{x:.1f}" of completed / total * 100: the nearest tenth
format_1f(completed, total) ==
    LET tenths == (2000 * completed + total) \div (2 * total)
    IN int_str(tenths \div 10) \o "." \o int_str(tenths % 10)

(* ---------------------------- section extractors ----------------------- *)
\* the k-th match of p in s from position i (none when there are fewer matches)
RECURSIVE nth_match(_, _, _, _)
nth_match(p, s, i, k) ==
    LET m == re_search_in(p, s, FALSE, i, Len(s))
    IN IF ~m.ok THEN None
       ELSE IF k = 1 THEN PyStr(group0(s, m))
       ELSE nth_match(p, s, m.end, k - 1)

\* doc.ents of the entity recognizer, restricted to the first PERSON entity:
\* the recognizer is an external model, it may label any run of capitalised words, or none
first_person_entity(nlp, text) ==
    IF nlp.person = 0 THEN None
    ELSE nth_match(Name \o <<Star(<<Lit(" ")>> \o Name)>>, text, 1, nlp.person)

\* a section under construction: the model object and the exception that ended the call, if any
Building(rec) == [rec |-> rec, exc |-> None]

\* name_parts = ent.text.split(): first_name, and last_name when there are two parts
set_person(info, ent) ==
    IF ent = None THEN info
    ELSE LET name_parts == str_split(ent.v, " ")
         IN IF Len(name_parts) >= 2
            THEN [info EXCEPT !.rec.first_name = PyStr(name_parts[1]),
                              !.rec.last_name = PyStr(name_parts[Len(name_parts)])]
            ELSE [info EXCEPT !.rec.first_name = PyStr(name_parts[1])]

entity_tier(info, text, nlp) ==
    IF ~nlp.loaded THEN info ELSE set_person(info, first_person_entity(nlp, text))

\* if value and hasattr(info, field_name): setattr(info, field_name, value);
\* an exception raised while value was computed ends the call
set_if_value(info, field_name, value) ==
    IF IsRaise(value) THEN [info EXCEPT !.exc = value]
    ELSE IF Truthy(value) /\ field_name \in DOMAIN info.rec
    THEN [info EXCEPT !.rec[field_name] = value]
    ELSE info

\* for field_name, pattern in self.extraction_patterns.items(): if hasattr(...): ...
RECURSIVE regex_tier(_, _, _, _, _)
regex_tier(info, names, text, now, k) ==
    IF k > Len(names) \/ info.exc # None THEN info
    ELSE IF names[k] \notin DOMAIN info.rec THEN regex_tier(info, names, text, now, k + 1)
    ELSE regex_tier(set_if_value(info, names[k],
                                 _extract_with_pattern(text, extraction_patterns[names[k]], now)),
                    names, text, now, k + 1)

personal_fields ==
    <<"personal_info.first_name", "personal_info.last_name", "personal_info.email",
      "personal_info.phone_number", "personal_info.date_of_birth", "personal_info.marital_status">>

\* field_path.split(".")[-1]
last_part(field_path) == LET parts == str_split(field_path, ".") IN parts[Len(parts)]

\* answer_tier taking the first matched answer that gives a value
RECURSIVE answer_tier_any_match(_, _, _, _)
answer_tier_any_match(info, field_matches, now, k) ==
    IF k > Len(personal_fields) \/ info.exc # None THEN info
    ELSE LET matches == field_matches[personal_fields[k]]
             field_name == last_part(personal_fields[k])
             giving == {i \in 1..Len(matches) :
                           Truthy(_extract_field_from_answer(field_name, matches[i].answer, now))}
             first == CHOOSE i \in giving : \A j \in giving : i <= j
         IN IF giving = {} THEN answer_tier_any_match(info, field_matches, now, k + 1)
            ELSE answer_tier_any_match(
                     set_if_value(info, field_name,
                                  _extract_field_from_answer(field_name, matches[first].answer, now)),
                     field_matches, now, k + 1)

RECURSIVE answer_tier(_, _, _, _)
answer_tier(info, field_matches, now, k) ==
    IF k > Len(personal_fields) \/ info.exc # None THEN info
    ELSE IF personal_fields[k] \in DOMAIN field_matches
            /\ Len(field_matches[personal_fields[k]]) > 0
    THEN answer_tier(
             set_if_value(info, last_part(personal_fields[k]),
                          _extract_field_from_answer(last_part(personal_fields[k]),
                                                     field_matches[personal_fields[k]][1].answer,
                                                     now)),
             field_matches, now, k + 1)
    ELSE answer_tier(info, field_matches, now, k + 1)

\* the entity tier, then the regex tier, then the answers of the matched questions
extract_personal_info(text, qa_pairs, nlp, now) ==
    answer_tier(regex_tier(entity_tier(Building(PersonalInfo), text, nlp),
                           extraction_pattern_names, text, now, 1),
                match_questions_to_kyc_fields(qa_pairs), now, 1)

Street ==
    Group(1, <<Plus(Digit), Plus(Space), Plus(Letter \cup Space),
               AltLit(<<"st", "street", "ave", "avenue", "rd", "road", "blvd", "boulevard",
                        "dr", "drive", "ln", "lane", "ct", "court">>)>>)

\* address_patterns, in dictionary order
address_patterns ==
    << [field_name |-> "street_address",
        patterns |-> << <<AltLit(<<"live at", "address is", "street">>), Dot(0, 20)>> \o Street,
                        Street >>],
       [field_name |-> "city",
        patterns |-> << <<AltLit(<<"city", "in">>), Plus(Space)>>
                            \o Group(1, Name \o <<Star(<<Plus(Space)>> \o Name)>>) >>],
       [field_name |-> "state",
        patterns |-> << Group(1, <<Rep(Upper, 2, 2)>>) \o <<Plus(Space), Rep(Digit, 5, 5)>>,
                        <<Lit("state"), Plus(Space), Maybe(<<Lit("of"), Plus(Space)>>)>>
                            \o Group(1, Name) >>],
       [field_name |-> "zip_code",
        patterns |-> << Group(1, <<Rep(Digit, 5, 5), Maybe(<<Lit("-"), Rep(Digit, 4, 4)>>)>>),
                        <<Lit("zip"), Dot(0, 10)>> \o Group(1, <<Rep(Digit, 5, 5)>>) >>] >>

\* the first pattern of the list that matches gives match.group(1).strip()
RECURSIVE first_group(_, _, _)
first_group(patterns, text, k) ==
    IF k > Len(patterns) THEN None
    ELSE LET m == re_search(patterns[k], text, TRUE)
         IN IF m.ok THEN PyStr(str_strip(group(text, m, 1))) ELSE first_group(patterns, text, k + 1)

RECURSIVE address_from(_, _, _)
address_from(address, text, k) ==
    IF k > Len(address_patterns) THEN address
    ELSE LET field_name == address_patterns[k].field_name
             value == first_group(address_patterns[k].patterns, text, 1)
         IN IF value # None /\ field_name \in DOMAIN address
            THEN address_from([address EXCEPT ![field_name] = value], text, k + 1)
            ELSE address_from(address, text, k + 1)

extract_address(text, qa_pairs) == Building(address_from(Address, text, 1))

\* employment_keywords, in dictionary order
employment_keywords ==
    << [value |-> "EMPLOYED", keywords |-> <<"employed", "work at", "job", "working">>],
       [value |-> "SELF_EMPLOYED",
        keywords |-> <<"self-employed", "own business", "freelance", "contractor">>],
       [value |-> "RETIRED", keywords |-> <<"retired", "retirement">>],
       [value |-> "UNEMPLOYED", keywords |-> <<"unemployed", "not working", "between jobs">>],
       [value |-> "STUDENT", keywords |-> <<"student", "studying", "school">>] >>

\* first_category giving the last entry of the table with a keyword occurring
RECURSIVE last_category(_, _, _)
last_category(table, text_lower, k) ==
    IF k > Len(table) THEN None
    ELSE IF last_category(table, text_lower, k + 1) # None
    THEN last_category(table, text_lower, k + 1)
    ELSE IF \E j \in 1..Len(table[k].keywords) : str_contains(text_lower, table[k].keywords[j])
    THEN PyEnum(table[k].value)
    ELSE None

\* the first entry of the table with a keyword occurring in text_lower
RECURSIVE first_category(_, _, _)
first_category(table, text_lower, k) ==
    IF k > Len(table) THEN None
    ELSE IF \E j \in 1..Len(table[k].keywords) : str_contains(text_lower, table[k].keywords[j])
    THEN PyEnum(table[k].value)
    ELSE first_category(table, text_lower, k + 1)

Employer == Group(1, <<One(Upper), Plus(Letter \cup Space \cup {"&"})>>)

employer_patterns ==
    << <<Lit("work at"), Plus(Space)>> \o Employer,
       <<Lit("employed by"), Plus(Space)>> \o Employer,
       <<Lit("company"), Dot(0, 20)>> \o Employer >>

financial_fields == <<"annual_income", "net_worth">>

RECURSIVE financial_tier(_, _, _, _)
financial_tier(info, text, now, k) ==
    IF k > Len(financial_fields) \/ info.exc # None THEN info
    ELSE IF financial_fields[k] \notin DOMAIN extraction_patterns
    THEN financial_tier(info, text, now, k + 1)
    ELSE financial_tier(
             set_if_value(info, financial_fields[k],
                          _extract_with_pattern(text, extraction_patterns[financial_fields[k]], now)),
             text, now, k + 1)

extract_employment_info(text, qa_pairs, now) ==
    LET status == first_category(employment_keywords, str_lower(text), 1)
        employer == first_group(employer_patterns, text, 1)
        e1 == IF status # None THEN [EmploymentInfo EXCEPT !.employment_status = status]
              ELSE EmploymentInfo
        e2 == IF employer # None THEN [e1 EXCEPT !.employer_name = employer] ELSE e1
    IN financial_tier(Building(e2), text, now, 1)

risk_keywords ==
    << [value |-> "CONSERVATIVE", keywords |-> <<"conservative", "safe", "low risk", "cautious">>],
       [value |-> "MODERATE", keywords |-> <<"moderate", "balanced", "medium risk">>],
       [value |-> "AGGRESSIVE", keywords |-> <<"aggressive", "high risk", "growth">>],
       [value |-> "VERY_AGGRESSIVE",
        keywords |-> <<"very aggressive", "speculation", "maximum risk">>] >>

objective_keywords ==
    << [value |-> "GROWTH", keywords |-> <<"growth", "appreciate", "increase">>],
       [value |-> "INCOME", keywords |-> <<"income", "dividends", "yield">>],
       [value |-> "PRESERVATION", keywords |-> <<"preserve", "protect", "capital preservation">>],
       [value |-> "SPECULATION", keywords |-> <<"speculation", "speculate", "high returns">>],
       [value |-> "BALANCED", keywords |-> <<"balanced", "combination", "mix">>] >>

experience_patterns ==
    << Group(1, <<Plus(Digit)>>) \o <<Plus(Space), Lit("year"), Opt({"s"})>>
           \o <<Dot(0, 20), AltLit(<<"experience", "investing">>)>>,
       <<Lit("investing"), Dot(0, 20)>> \o Group(1, <<Plus(Digit)>>) \o <<Plus(Space), Lit("year"), Opt({"s"})>>,
       <<Lit("been investing"), Dot(0, 20)>> \o Group(1, <<Plus(Digit)>>) >>

\* int() of a captured run of digits does not raise
RECURSIVE experience_from(_, _)
experience_from(text, k) ==
    IF k > Len(experience_patterns) THEN None
    ELSE LET m == re_search(experience_patterns[k], text, TRUE)
         IN IF m.ok THEN [ty |-> "int", v |-> str_int(group(text, m, 1))] ELSE experience_from(text, k + 1)

extract_investment_profile(text, qa_pairs) ==
    LET text_lower == str_lower(text)
        risk_level == first_category(risk_keywords, text_lower, 1)
        objective == first_category(objective_keywords, text_lower, 1)
        years == experience_from(text, 1)
        p1 == IF risk_level # None THEN [InvestmentProfile EXCEPT !.risk_tolerance = risk_level]
              ELSE InvestmentProfile
        p2 == IF objective # None THEN [p1 EXCEPT !.investment_objective = objective] ELSE p1
        p3 == IF years # None THEN [p2 EXCEPT !.investment_experience_years = years] ELSE p2
    IN Building(p3)

ScoreQA == 80

ScoreText == 30

\* _calculate_confidence_scores scoring by whether the field holds a value
_calculate_confidence_scores_by_value(kyc_data, qa_pairs) ==
    LET field_matches == match_questions_to_kyc_fields(qa_pairs)
    IN [field_path \in DOMAIN field_matches |->
           LET parts == str_split(field_path, ".")
           IN IF parts[2] \in DOMAIN kyc_data[parts[1]] /\ kyc_data[parts[1]][parts[2]] # None
              THEN PyFloat(ScoreQA) ELSE PyFloat(ScoreText)]

\* a score for every field of the question pattern index
_calculate_confidence_scores(kyc_data, qa_pairs) ==
    LET field_matches == match_questions_to_kyc_fields(qa_pairs)
    IN [field_path \in DOMAIN field_matches |->
           IF Len(field_matches[field_path]) > 0 THEN PyFloat(ScoreQA) ELSE PyFloat(ScoreText)]

LowCompletion == 50

\* processing_notes_of with the advisory note appended whatever the percentage
processing_notes_always_advised(kyc_data) ==
    <<"Form completion: " \o format_1f(completed_fields(kyc_data), total_fields(kyc_data)) \o "%",
      "Low completion rate - consider asking for more information">>

processing_notes_of(kyc_data) ==
    LET completion_percentage == get_completion_percentage(kyc_data)
        note == "Form completion: "
                \o format_1f(completed_fields(kyc_data), total_fields(kyc_data)) \o "%"
    IN IF completion_percentage.v < LowCompletion * 100
       THEN <<note, "Low completion rate - consider asking for more information">>
       ELSE <<note>>

ExtractionResult(kyc_data, qa_pairs, segs) ==
    [kyc_data |-> kyc_data,
     confidence_scores |-> _calculate_confidence_scores(kyc_data, qa_pairs),
     extracted_segments |-> segs,
     processing_notes |-> processing_notes_of(kyc_data)]

\* what extract_kyc_data makes of the four sections it has extracted: pt is
\* processed_transcript
result_of_sections(pt, personal_info, address, employment_info, investment_profile, now) ==
    IF personal_info.exc # None THEN [exc |-> personal_info.exc, result |-> None]
    ELSE IF employment_info.exc # None THEN [exc |-> employment_info.exc, result |-> None]
    ELSE [exc |-> None,
          result |-> ExtractionResult(KYCData(personal_info.rec, address.rec, employment_info.rec,
                                              investment_profile.rec, now),
                                      pt.qa_pairs, pt.segments)]

\* the sections extracted from client_text
kyc_data_of_text(processed_transcript, client_text, nlp, now) ==
    result_of_sections(processed_transcript,
                       extract_personal_info(client_text, processed_transcript.qa_pairs, nlp, now),
                       extract_address(client_text, processed_transcript.qa_pairs),
                       extract_employment_info(client_text, processed_transcript.qa_pairs, now),
                       extract_investment_profile(client_text, processed_transcript.qa_pairs),
                       now)

\* returns [exc, result]: the exception that escaped the call, or the ExtractionResult
extract_kyc_data(processed_transcript, nlp, now) ==
    kyc_data_of_text(processed_transcript,
                     str_join(" ", processed_transcript.client_statements), nlp, now)

\* key_topics and conversation_flow are left out: extract_kyc_data reads neither;
\* conversation_flow repeats segments, key_topics is the entity recognizer's output
processed_of(cleaned_transcript, segs, pairs) ==
    [cleaned_transcript |-> cleaned_transcript, segments |-> segs, qa_pairs |-> pairs,
     client_statements |-> extract_client_statements(segs),
     total_segments |-> Len(segs), total_qa_pairs |-> Len(pairs)]

\* the segments of the cleaned transcript and their pairs
process_segments(cleaned_transcript, segs) ==
    processed_of(cleaned_transcript, segs, extract_qa_pairs(segs))

process_cleaned(cleaned_transcript) ==
    process_segments(cleaned_transcript, segment_transcript(cleaned_transcript))

process_transcript(raw_transcript) == process_cleaned(clean_transcript(raw_transcript))

(* ------------------------------ KYCProcessor --------------------------- *)
\* process_transcript_to_pdf once the transcript is read and processed; r is what
\* extract_kyc_data gave, [exc, result]; template is "none" (no template_name),
\* "found" or "missing" (load_template returned None); pdf_success is what
\* fill_pdf_form returned. The dictionary is read where the call ends.
\* pdf_results with success set whatever fill_pdf_form returned
pdf_results_always_success(pt, r, template, pdf_success) ==
    IF r.exc # None
    THEN [success |-> FALSE, kyc_data |-> None, extraction_result |-> None,
          pdf_filled |-> FALSE, completion_percentage |-> PyFloat(0),
          processing_notes |-> <<"Processed " \o int_str(pt.total_segments) \o " transcript segments">>,
          errors |-> <<"Unexpected error during processing: " \o r.exc.exc>>]
    ELSE [success |-> TRUE, kyc_data |-> r.result.kyc_data, extraction_result |-> r.result,
          pdf_filled |-> pdf_success,
          completion_percentage |-> get_completion_percentage(r.result.kyc_data),
          processing_notes |-> <<"Processed " \o int_str(pt.total_segments) \o " transcript segments">>
                               \o r.result.processing_notes,
          errors |-> <<>>]

pdf_results(pt, r, template, pdf_success) ==
    IF r.exc # None
    THEN [success |-> FALSE, kyc_data |-> None, extraction_result |-> None,
          pdf_filled |-> FALSE, completion_percentage |-> PyFloat(0),
          processing_notes |-> <<"Processed " \o int_str(pt.total_segments) \o " transcript segments">>,
          errors |-> <<"Unexpected error during processing: " \o r.exc.exc>>]
    ELSE [success |-> pdf_success, kyc_data |-> r.result.kyc_data, extraction_result |-> r.result,
          pdf_filled |-> pdf_success,
          completion_percentage |-> get_completion_percentage(r.result.kyc_data),
          processing_notes |->
              <<"Processed " \o int_str(pt.total_segments) \o " transcript segments">>
              \o r.result.processing_notes
              \o (CASE template = "found" -> <<"Using template: basic">>
                     [] template = "missing" -> <<"Template 'basic' not found, using defaults">>
                     [] OTHER -> <<>>)
              \o (IF pdf_success THEN <<"Successfully created filled PDF: out.pdf">> ELSE <<>>),
          errors |-> IF pdf_success THEN <<>> ELSE <<"Failed to fill PDF form">>]

\* read is what open() and f.read() gave: the text of the file, or the exception raised
process_transcript_to_pdf(read, template, pdf_success, nlp, now) ==
    IF read.exc # None
    THEN [success |-> FALSE, kyc_data |-> None, extraction_result |-> None,
          pdf_filled |-> FALSE, completion_percentage |-> PyFloat(0),
          processing_notes |-> <<>>,
          errors |-> <<(IF read.exc = Raise("FileNotFoundError") THEN "File not found: "
                        ELSE "Unexpected error during processing: ") \o read.message>>]
    ELSE pdf_results(process_transcript(read.text),
                     extract_kyc_data(process_transcript(read.text), nlp, now),
                     template, pdf_success)

(* ================================ inputs =============================== *)
MaxLines == 2

MaxSegs == 4

MaxPerson == 2

StartYear == 2026

\* lines a transcript is made of
Lines ==
    { "Advisor: What is your name?",
      "Client: My name is John Smith.",
      "FA: What is your income?",
      "Mrs. Lee: I earn 80k",
      "Mr. Smith: I am 35",
      "Client: What do you mean?",
      "Advisor: Thanks.",
      "Bob: Can you explain?",
      "Random text",
      "",
      "Client: I am 35 years old",
      "Client: born 2/30/1990, 555-1234" }

\* whole transcripts: those of the tests and of the documentation
TestTranscript ==
    "Advisor: What is your name?\nClient: My name is John Smith.\nAdvisor: How old are you?\nClient: I am 35 years old."

HelloTranscript == "Client: Hello\nAdvisor: How are you?\nClient: Fine"

IncomeTranscript ==
    "Advisor: How are you?\nClient: Fine\nFA: What is your income?\nMrs. Lee: I earn 80k"

RawCleanTranscript ==
    "\n  [00:12:34] Advisor: Um, what is your name?\n  [inaudible] \n  Client: My name is, uh, John Smith.\n  "

Transcripts ==
    { TestTranscript, HelloTranscript, IncomeTranscript, RawCleanTranscript,
      "Client: I earn 80k a year, call 555-123-4567",
      "Customer: born 13/45/2000 or 1-1-0000, I make $x",
      "Client: I live at 5 Elm St in Salem, OR 97301, single",
      "Mr.: I work at Acme, 100 years of experience investing",
      "", "Random text", "Client: I am 35 years old", "Client: born 2/30/1990, 555-1234" }

RECURSIVE LineSeqs(_)
LineSeqs(n) ==
    IF n = 0 THEN {<<>>}
    ELSE LineSeqs(n - 1) \cup {Append(ls, l) : ls \in LineSeqs(n - 1), l \in Lines}

\* the transcripts segment_transcript is called on directly
RawInputs == Transcripts \cup {str_join("\n", ls) : ls \in LineSeqs(MaxLines)}

\* utterances handed to extract_qa_pairs directly
Utterances ==
    { TranscriptSegment("advisor", "Q1?", "question"),
      TranscriptSegment("advisor", "Q2?", "question"),
      TranscriptSegment("client", "A1", "answer"),
      TranscriptSegment("client", "A2", "answer"),
      TranscriptSegment("advisor", "Thanks.", "statement"),
      TranscriptSegment("unknown", "Random text", "statement"),
      TranscriptSegment("advisor", "", "question") }

RECURSIVE UtteranceLists(_)
UtteranceLists(n) ==
    IF n = 0 THEN {<<>>}
    ELSE UtteranceLists(n - 1) \cup {Append(us, u) : us \in UtteranceLists(n - 1), u \in Utterances}

\* the entity recognizer: not installed, or installed and labelling the person-th run
\* of capitalised words as the first PERSON entity (0: no PERSON entity)
NoNlp == [loaded |-> FALSE, person |-> 0]

NlpChoices == {NoNlp} \cup {[loaded |-> TRUE, person |-> k] : k \in 0..MaxPerson}

\* line-separated dialogues segmented without being cleaned, the dictionary built of
\* their segments handed to extract_kyc_data
Dialogues ==
    { TestTranscript,
      "Advisor: What is your income?\nClient: I earn 80k",
      "Client: Call me Al\nAdvisor: What is your first name?\nClient: Call me Bob",
      "Advisor: Are you married?\nClient: I am single",
      "Client: $80k a year, worth 2m",
      "Client: I have 81 years of experience",
      "Advisor: Are you married?\nClient: no comment\nAdvisor: What is your email?\nClient: pass\nAdvisor: marital status?\nClient: single\nAdvisor: Your email please?\nClient: al@x.io",
      "Client: call me Al, last name is Lee, 555-123-4567, al@x.io, born 1/2/1990, I live at 5 Elm St in Salem, OR 97301, I work at Acme, I earn 80, worth 90, moderate growth, 5 years investing",
      "" }

\* raw transcripts clean_transcript is called on directly
CleanInputs ==
    { RawCleanTranscript, "", "  \n\t ", "[00:12:34] Um, hello  there [INAUDIBLE] ok",
      "I, like, basically know", "you um know", "you uh know it", "like [unclear] umbrella",
      "[inaud[00:00:00]ible] yes", "a [0:1:2] b", "Hmm [Crosstalk] ah  er", "alike, human" }

MaxPairs == 2

\* the calls of _post_process: value and func_name
PostProcessCalls ==
    [value : {"5551234567", "555-123-4567", "(555) 123 4567", "555 1234", "15551234567",
              "555.123.4567 x89", "", "abc"},
     func_name : {"format_phone"}]
    \cup [value : {"50k", "$1,200,000", "2m", "3k m", "2M", "40K", "1.5k", "km", "abc", "",
                   "$", "12.50", "1,5", "about 7", "m 2 k 9"},
          func_name : {"parse_currency"}]
    \cup [value : {" john o'neil ", "A@B.Com ", "12/31/1990", "2/30/1990", "35 years old", ""},
          func_name : {"clean_name", "clean_email", "parse_date", "other"}]
    \cup [value : {"1/2/1990 or 3-4-1991", "2/30/1990 or 3-4-1991", "4-5-2001", "1-1-0000",
                   "13/45/2000, 1-1-0000, 35 years old", "0/0/2000", "99 yrs old",
                   "35 Years Old", "2/29/2000", "2/29/1900"},
          func_name : {"parse_date"}]

\* client texts handed to extract_employment_info and extract_investment_profile: every
\* keyword of the three tables by itself, and texts with none or several of them
SectionTexts ==
    UNION { UNION { { table[k].keywords[j] : j \in 1..Len(table[k].keywords) } :
                        k \in 1..Len(table) } :
                table \in {employment_keywords, risk_keywords, objective_keywords} }
    \cup { "", "nothing here", "RETIRED and Working", "I am a student, retired",
           "safe growth", "Balanced mix of income and growth", "Maximum Risk, cautious",
           "school of speculation, moderate", "81 years experience", "80 years experience",
           "investing for 150 years", "5 years investing", "been investing 7" }

\* what the files and the PDF library give a call of process_transcript_to_pdf
PdfCalls ==
    [read : {[exc |-> None, text |-> t, message |-> ""] :
                 t \in {"", IncomeTranscript, "Client: I have 81 years of experience"}}
             \cup {[exc |-> Raise("FileNotFoundError"), text |-> "",
                    message |-> "[Errno 2] No such file or directory: 't.txt'"],
                   [exc |-> Raise("PermissionError"), text |-> "",
                    message |-> "[Errno 13] Permission denied: 't.txt'"]},
     template : {"none", "found", "missing"},
     pdf_success : BOOLEAN]

\* questions and answers handed to match_questions_to_kyc_fields
TestPairs ==
    << [question |-> "What is your first name?", answer |-> "John"],
       [question |-> "What is your email address?", answer |-> "john@email.com"],
       [question |-> "What is your annual income?", answer |-> "$50,000"],
       [question |-> "What is your favorite color?", answer |-> "Blue"] >>

QAPairs ==
    { TestPairs[1] }
    \cup { [question |-> "Your NAME, first and last name please", answer |-> "Al Lee"],
           [question |-> "Anything else", answer |-> "what is your first name"],
           [question |-> "HOW OLD are you, and your e-mail?", answer |-> "35"] }

RECURSIVE PairLists(_)
PairLists(n) ==
    IF n = 0 THEN {<<>>}
    ELSE PairLists(n - 1) \cup {Append(ps, p) : ps \in PairLists(n - 1), p \in QAPairs}

(* =============================== the program =========================== *)
VARIABLES
    mode,              \* the entry point used: "pipeline" (process_transcript, then
                       \* extract_kyc_data), "segment" (segment_transcript, then
                       \* extract_qa_pairs), "link" (extract_qa_pairs), "extract" (as
                       \* "segment", then extract_kyc_data on the dictionary built of it),
                       \* "clean" (clean_transcript), "post" (_post_process),
                       \* "match" (match_questions_to_kyc_fields),
                       \* "sections" (extract_employment_info and
                       \* extract_investment_profile),
                       \* "pdf" (KYCProcessor.process_transcript_to_pdf)
    pc,                \* the position of the caller
    raw,               \* raw_transcript
    nlp,               \* self.nlp
    now,               \* the wall clock
    cleaned,           \* cleaned_transcript
    segments,          \* segments
    seg_i,             \* position of the loop of extract_qa_pairs in segments
    current_question,  \* current_question of extract_qa_pairs
    qa_pairs,          \* qa_pairs of extract_qa_pairs
    processed,         \* the dictionary returned by process_transcript
    result,            \* the ExtractionResult of the last extraction
    prev_result,       \* the ExtractionResult of the extraction before it
    raised,            \* an exception escaped a call
    args,              \* the arguments of _post_process or match_questions_to_kyc_fields
    ret                \* what that call returned

vars ==
    <<mode, pc, raw, nlp, now, cleaned, segments, seg_i, current_question, qa_pairs, processed,
      result, prev_result, raised, args, ret>>

Init ==
    /\ mode \in {"pipeline", "segment", "link", "extract", "clean", "post", "match", "sections", "pdf"}
    /\ raw \in (CASE mode = "pipeline" -> Transcripts
                 [] mode = "segment" -> RawInputs
                 [] mode = "extract" -> Dialogues
                 [] mode = "clean" -> CleanInputs
                 [] OTHER -> {""})
    /\ nlp \in (IF mode \in {"pipeline", "extract"} THEN NlpChoices ELSE {NoNlp})
    /\ args \in (CASE mode = "post" -> PostProcessCalls
                  [] mode = "match" -> [qa_pairs : PairLists(MaxPairs) \cup {TestPairs}]
                  [] mode = "sections" -> [text : SectionTexts]
                  [] mode = "pdf" -> PdfCalls
                  [] OTHER -> {None})
    /\ ret = None
    /\ segments \in (IF mode = "link" THEN UtteranceLists(MaxSegs) ELSE {<<>>})
    /\ pc = (IF mode = "link" THEN "linking" ELSE "start")
    /\ now = [year |-> StartYear, tick |-> 0]
    /\ cleaned = (IF mode = "extract" THEN raw ELSE "")
    /\ seg_i = 1
    /\ current_question = None
    /\ qa_pairs = <<>>
    /\ processed = None
    /\ result = None
    /\ prev_result = None
    /\ raised = FALSE

\* process_transcript, first step
CleanTranscript ==
    /\ mode \in {"pipeline", "clean"} /\ pc = "start"
    /\ cleaned' = clean_transcript(raw)
    /\ pc' = "cleaned"
    /\ UNCHANGED <<mode, raw, nlp, now, segments, seg_i, current_question, qa_pairs, processed,
                   result, prev_result, raised,
                   args, ret>>

\* segment_transcript: of the cleaned transcript in process_transcript,
\* of the transcript itself when called directly
SegmentTranscript ==
    /\ \/ mode = "pipeline" /\ pc = "cleaned" /\ segments' = segment_transcript(cleaned)
       \/ mode \in {"segment", "extract"} /\ pc = "start" /\ segments' = segment_transcript(raw)
    /\ pc' = "linking"
    /\ seg_i' = 1
    /\ current_question' = None
    /\ qa_pairs' = <<>>
    /\ UNCHANGED <<mode, raw, nlp, now, cleaned, processed, result, prev_result, raised,
                   args, ret>>

\* extract_qa_pairs: one iteration of the loop
LinkSegment ==
    /\ pc = "linking" /\ seg_i <= Len(segments)
    /\ \E st \in {link_step([current_question |-> current_question, qa_pairs |-> qa_pairs],
                             segments[seg_i])} :
          /\ current_question' = st.current_question
          /\ qa_pairs' = st.qa_pairs
    /\ seg_i' = seg_i + 1
    /\ UNCHANGED <<mode, pc, raw, nlp, now, cleaned, segments, processed, result, prev_result, raised,
                   args, ret>>

\* extract_qa_pairs returns; process_transcript builds its dictionary
ReturnPairs ==
    /\ pc = "linking" /\ seg_i > Len(segments)
    /\ \/ /\ mode \in {"pipeline", "extract"}
          /\ processed' = processed_of(cleaned, segments, qa_pairs)
          /\ pc' = "processed"
       \/ /\ mode \notin {"pipeline", "extract"}
          /\ processed' = processed
          /\ pc' = "done"
    /\ UNCHANGED <<mode, raw, nlp, now, cleaned, segments, seg_i, current_question, qa_pairs,
                   result, prev_result, raised,
                   args, ret>>

\* extract_kyc_data(processed_transcript)
ExtractKycData ==
    /\ pc = "processed"
    /\ \E r \in {extract_kyc_data(processed, nlp, now)} :
          /\ result' = r.result
          /\ raised' = (r.exc # None)
    /\ pc' = "extracted"
    /\ UNCHANGED <<mode, raw, nlp, now, cleaned, segments, seg_i, current_question, qa_pairs,
                   processed, prev_result,
                   args, ret>>

\* time passes between two calls
Tick ==
    /\ mode = "pipeline" /\ pc = "extracted" /\ now.tick = 0 /\ now.year = StartYear
    /\ now' = [now EXCEPT !.tick = 1]
    /\ UNCHANGED <<mode, pc, raw, nlp, cleaned, segments, seg_i, current_question, qa_pairs,
                   processed, result, prev_result, raised,
                   args, ret>>

NewYear ==
    /\ mode = "pipeline" /\ pc = "extracted" /\ now.year = StartYear
    /\ now' = [year |-> now.year + 1, tick |-> 0]
    /\ UNCHANGED <<mode, pc, raw, nlp, cleaned, segments, seg_i, current_question, qa_pairs,
                   processed, result, prev_result, raised,
                   args, ret>>

\* the whole extraction once more, on the same transcript text
ExtractAgain ==
    /\ mode = "pipeline" /\ pc = "extracted"
    /\ \E r \in {extract_kyc_data(process_transcript(raw), nlp, now)} :
          /\ result' = r.result
          /\ raised' = (raised \/ r.exc # None)
    /\ prev_result' = result
    /\ pc' = "done"
    /\ UNCHANGED <<mode, raw, nlp, now, cleaned, segments, seg_i, current_question, qa_pairs,
                   processed,
                   args, ret>>

\* _post_process(value, func_name) called directly
PostProcess ==
    /\ mode = "post" /\ pc = "start"
    /\ ret' = _post_process(args.value, args.func_name, now)
    /\ raised' = IsRaise(ret')
    /\ pc' = "done"
    /\ UNCHANGED <<mode, raw, nlp, now, cleaned, segments, seg_i, current_question, qa_pairs,
                   processed, result, prev_result, args>>

\* match_questions_to_kyc_fields(qa_pairs) called directly
MatchQuestions ==
    /\ mode = "match" /\ pc = "start"
    /\ ret' = match_questions_to_kyc_fields(args.qa_pairs)
    /\ pc' = "done"
    /\ UNCHANGED <<mode, raw, nlp, now, cleaned, segments, seg_i, current_question, qa_pairs,
                   processed, result, prev_result, raised, args>>

\* extract_employment_info(text, []) and extract_investment_profile(text, []) called
\* directly
ExtractSections ==
    /\ mode = "sections" /\ pc = "start"
    /\ ret' = [employment_info |-> extract_employment_info(args.text, <<>>, now).rec,
               investment_profile |-> extract_investment_profile(args.text, <<>>).rec]
    /\ pc' = "done"
    /\ UNCHANGED <<mode, raw, nlp, now, cleaned, segments, seg_i, current_question, qa_pairs,
                   processed, result, prev_result, raised, args>>

\* KYCProcessor.process_transcript_to_pdf: the try block and its handlers
ProcessTranscriptToPdf ==
    /\ mode = "pdf" /\ pc = "start"
    /\ ret' = process_transcript_to_pdf(args.read, args.template, args.pdf_success, nlp, now)
    /\ raised' = FALSE
    /\ pc' = "done"
    /\ UNCHANGED <<mode, raw, nlp, now, cleaned, segments, seg_i, current_question, qa_pairs,
                   processed, result, prev_result, args>>

Next ==
    \/ CleanTranscript
    \/ SegmentTranscript
    \/ LinkSegment
    \/ ReturnPairs
    \/ ExtractKycData
    \/ Tick
    \/ NewYear
    \/ ExtractAgain
    \/ PostProcess
    \/ MatchQuestions
    \/ ExtractSections
    \/ ProcessTranscriptToPdf

Spec == Init /\ [][Next]_vars

(* ================================ properties =========================== *)
\* C1: process_transcript followed by extract_kyc_data, on the four-line transcript in
\* which "FA: What is your income?" is followed by "Mrs. Lee: I earn 80k" and no first
\* name is asked for, gives a record with first_name unset, annual_income 80000.0, a
\* confidence of 0.8 for the annual income, and a completion-percentage note.
C1_IncomeAnchoredEndToEnd ==
    (mode = "pipeline" /\ raw = IncomeTranscript /\ pc = "extracted") =>
        /\ result.kyc_data.personal_info.first_name = None
        /\ result.kyc_data.employment_info.annual_income = PyFloat(8000000)
        /\ result.confidence_scores["employment_info.annual_income"] = PyFloat(80)
        /\ \E k \in 1..Len(result.processing_notes) :
               SubSeq(result.processing_notes[k], 1, 17) = "Form completion: "

\* C2: when the utterances alternate strictly advisor question, client answer
\* (Q1, A1, ..., Qn, An), each question one that segment_transcript detects as a question,
\* segment_transcript followed by extract_qa_pairs gives exactly the n pairs (Qi, Ai), in
\* order; the four lines of the test give exactly two pairs.
C2_AlternatingGivesAllPairs ==
    LET n == Len(segments) \div 2
        alternates ==
            /\ Len(segments) = 2 * n
            /\ \A i \in 1..n :
                   /\ segments[2 * i - 1].speaker = "advisor"
                   /\ segments[2 * i - 1].segment_type = "question"
                   /\ is_question(segments[2 * i - 1].content)
                   /\ segments[2 * i].speaker = "client"
                   /\ segments[2 * i].segment_type = "answer"
    IN /\ (pc = "done" /\ alternates) =>
              qa_pairs = [i \in 1..n |-> [question |-> segments[2 * i - 1].content,
                                          answer |-> segments[2 * i].content]]
       /\ (mode = "segment" /\ raw = TestTranscript /\ pc = "done") =>
              qa_pairs = <<[question |-> "What is your name?",
                            answer |-> "My name is John Smith."],
                           [question |-> "How old are you?", answer |-> "I am 35 years old."]>>

C2_TwoPairsOfFourLines ==
    /\ mode = "segment" /\ raw = TestTranscript /\ pc = "done"
    /\ Len(segments) = 4 /\ Len(qa_pairs) = 2

\* C3: an iteration of extract_qa_pairs on an answer while no question is held adds no
\* pair and holds no question afterwards.
C3_AnswerWithoutQuestionAddsNoPair ==
    [][(/\ pc = "linking" /\ seg_i <= Len(segments) /\ seg_i' = seg_i + 1
        /\ segments[seg_i].segment_type = "answer"
        /\ current_question = None)
       => (qa_pairs' = qa_pairs /\ current_question' = None)]_vars

C3_OnePairOfHelloTranscript ==
    /\ mode = "segment" /\ raw = HelloTranscript /\ pc = "done"
    /\ segments[1].segment_type = "answer"
    /\ qa_pairs = <<[question |-> "How are you?", answer |-> "Fine"]>>

\* C4: the pairs made of the utterances read so far are those of a strictly increasing
\* choice of answers, each paired with the most recent question before it, no question
\* in two pairs; so there are at most as many pairs as questions and as answers.
C4_PairsSequentialNonOverlapping ==
    LET read == 1..(seg_i - 1)
        Q == {i \in read : i <= Len(segments) /\ segments[i].segment_type = "question"}
        A == {i \in read : i <= Len(segments) /\ segments[i].segment_type = "answer"}
        lastq(a) == CHOOSE q \in Q : q < a /\ \A r \in Q : r < a => r <= q
    IN /\ Len(qa_pairs) <= Cardinality(Q)
       /\ Len(qa_pairs) <= Cardinality(A)
       /\ \E f \in [1..Len(qa_pairs) -> A] :
              /\ \A i \in DOMAIN f : \E q \in Q : q < f[i]
              /\ \A i, j \in DOMAIN f : i < j => (f[i] < f[j] /\ lastq(f[i]) < lastq(f[j]))
              /\ \A i \in DOMAIN f :
                     qa_pairs[i] = [question |-> segments[lastq(f[i])].content,
                                    answer |-> segments[f[i]].content]

C4_AnswersAroundOneQuestion ==
    /\ mode = "link" /\ pc = "done" /\ Len(segments) = 4
    /\ segments[1].segment_type = "answer" /\ segments[2].segment_type = "question"
    /\ segments[3].segment_type = "answer" /\ segments[4].segment_type = "answer"
    /\ Len(qa_pairs) = 1

\* C5: process_transcript gives one utterance per non-blank line of the raw transcript:
\* total_segments is the number of non-blank lines.
C5_OneSegmentPerRawLine ==
    (mode = "pipeline" /\ pc \in {"processed", "extracted", "done"}) =>
        LET lines == str_split(raw, "\n")
        IN processed.total_segments
               = Cardinality({i \in 1..Len(lines) : str_strip(lines[i]) # ""})

\* C6: a line that starts with an honorific, a name and a colon is an utterance of the
\* client, of type answer, whose content is the text after the colon.
C6_HonorificNameIsClient ==
    (mode = "segment" /\ pc = "done") =>
        /\ raw = "Mr. Smith: I am 35" => segments = <<TranscriptSegment("client", "I am 35", "answer")>>
        /\ raw = "Mrs. Lee: I earn 80k"
               => segments = <<TranscriptSegment("client", "I earn 80k", "answer")>>

\* C7: segment_transcript gives each non-blank line one utterance, of type question when
\* the speaker is the advisor and the content is detected as a question, answer when the
\* speaker is the client, statement otherwise; so an utterance is an answer iff its
\* speaker is the client, and a question only if its speaker is the advisor.
C7_TypeBySpeakerAndQuestion ==
    (mode # "link" /\ pc # "start") =>
        /\ \A i \in 1..Len(segments) :
               LET s == segments[i]
               IN /\ s.segment_type =
                         (IF s.speaker = "advisor" /\ is_question(s.content) THEN "question"
                          ELSE IF s.speaker = "client" THEN "answer"
                          ELSE "statement")
                  /\ (s.segment_type = "answer" <=> s.speaker = "client")
                  /\ (s.segment_type = "question" => s.speaker = "advisor")
        /\ mode = "segment" =>
               LET lines == str_split(raw, "\n")
               IN Len(segments) = Cardinality({i \in 1..Len(lines) : str_strip(lines[i]) # ""})

C7_QuestionLikeClientAndUnknown ==
    /\ mode = "segment" /\ pc = "done" /\ Len(segments) = 2
    /\ segments[1].speaker = "client" /\ is_question(segments[1].content)
    /\ segments[1].segment_type = "answer"
    /\ segments[2].speaker = "unknown" /\ is_question(segments[2].content)
    /\ segments[2].segment_type = "statement"

\* C8: the full extraction run twice on the same transcript text gives the same
\* ExtractionResult, and nothing of it depends on the wall clock.
C8_SameResultTwice ==
    pc = "done" => prev_result = result

\* C9: process_transcript followed by extract_kyc_data never raises and returns an
\* ExtractionResult; a date that is not of the calendar leaves date_of_birth unset, a
\* line without a known speaker prefix is an utterance of an unknown speaker.
C9_NeverRaises ==
    /\ ~raised
    /\ (mode = "pipeline" /\ pc \in {"extracted", "done"}) =>
           /\ result # None
           /\ DOMAIN result
                  = {"kyc_data", "confidence_scores", "extracted_segments", "processing_notes"}
           /\ Len(result.processing_notes) >= 1
           /\ raw \in {"Client: born 2/30/1990, 555-1234",
                       "Customer: born 13/45/2000 or 1-1-0000, I make $x"}
                  => result.kyc_data.personal_info.date_of_birth = None
           /\ raw = "Random text"
                  => result.extracted_segments = <<TranscriptSegment("unknown", raw, "statement")>>

C9_InvalidDateLeftUnset ==
    /\ mode = "pipeline" /\ pc = "done" /\ ~raised
    /\ raw = "Customer: born 13/45/2000 or 1-1-0000, I make $x"
    /\ result.kyc_data.personal_info.date_of_birth = None
    /\ result.kyc_data.employment_info.annual_income = None

\* C10: every key of the confidence map of an ExtractionResult names a field that is
\* populated in the record.
C10_ConfidenceOnlyForPopulated ==
    (mode = "pipeline" /\ pc \in {"extracted", "done"}) =>
        \A field_path \in DOMAIN result.confidence_scores :
            LET parts == str_split(field_path, ".")
                section == result.kyc_data[parts[1]]
            IN parts[2] \in DOMAIN section /\ section[parts[2]] # None

\* C11: the confidence map of an ExtractionResult has a score for every field of the
\* question pattern index: 0.8 when the question of at least one Q&A pair handed to
\* extract_kyc_data matches a pattern of the field, 0.3 otherwise, in particular when the
\* field is populated and no pair matches; no other score is produced, so every score
\* lies in [0, 1].
C11_ScoreByMatchedPair ==
    result # None =>
        LET scores == result.confidence_scores
            pairs == processed.qa_pairs
            populated(field_path) ==
                LET parts == str_split(field_path, ".")
                IN parts[2] \in DOMAIN result.kyc_data[parts[1]]
                   /\ result.kyc_data[parts[1]][parts[2]] # None
        IN /\ DOMAIN scores
                  = {kyc_question_patterns[k].field : k \in 1..Len(kyc_question_patterns)}
           /\ \A k \in 1..Len(kyc_question_patterns) :
                  LET entry == kyc_question_patterns[k]
                      matched == \E i \in 1..Len(pairs) : \E j \in 1..Len(entry.patterns) :
                                     re_search(entry.patterns[j], str_lower(pairs[i].question),
                                               TRUE).ok
                  IN /\ matched => scores[entry.field] = PyFloat(80)
                     /\ (populated(entry.field) /\ ~matched) => scores[entry.field] = PyFloat(30)
                     /\ scores[entry.field] \in {PyFloat(80), PyFloat(30)}
                     /\ scores[entry.field].v >= 0 /\ scores[entry.field].v <= 100

C11_MatchedAndUnmatchedScores ==
    /\ mode = "extract" /\ raw = TestTranscript /\ pc = "extracted"
    /\ Len(processed.qa_pairs) = 2
    /\ result.confidence_scores["personal_info.date_of_birth"] = PyFloat(80)
    /\ result.kyc_data.personal_info.first_name # None
    /\ result.confidence_scores["personal_info.first_name"] = PyFloat(30)

\* C12: the completion percentage of the record of an ExtractionResult lies in [0, 100]
\* and is 100 * filled / total, filled being the number of non-null leaf fields of the
\* four sections and total the number of leaf fields of the four sections; the fields
\* of the record outside the four sections are not counted.
C12_CompletionOverSectionLeaves ==
    result # None =>
        LET kyc_data == result.kyc_data
            sections == {"personal_info", "address", "employment_info", "investment_profile"}
            leaves == {<<sec, f>> : sec \in sections,
                                   f \in UNION {DOMAIN kyc_data[x] : x \in sections}}
            total == Cardinality({l \in leaves : l[2] \in DOMAIN kyc_data[l[1]]})
            nonnull == Cardinality({l \in leaves : /\ l[2] \in DOMAIN kyc_data[l[1]]
                                                    /\ kyc_data[l[1]][l[2]] # None})
            percentage == get_completion_percentage(kyc_data).v
        IN /\ percentage >= 0 /\ percentage <= 10000
           /\ percentage = (nonnull * 10000) \div total

\* C13: for an empty or whitespace-only transcript, and for a transcript nothing is
\* extracted from, process_transcript followed by extract_kyc_data raises nothing and
\* gives a record with no populated field, a completion percentage of exactly 0, and a
\* processing note.
C13_EmptyTranscriptEmptyRecord ==
    (mode = "pipeline" /\ raw \in {"", "Random text"} /\ pc \in {"extracted", "done"}) =>
        /\ ~raised
        /\ Len(result.processing_notes) >= 1
        /\ \A sec \in {"personal_info", "address", "employment_info", "investment_profile"} :
               \A f \in DOMAIN result.kyc_data[sec] : result.kyc_data[sec][f] = None
        /\ get_completion_percentage(result.kyc_data) = PyFloat(0)

\* C14: the processing notes of an ExtractionResult start with exactly one
\* completion-percentage note, and the low-completion advisory note is there, as the
\* second and last note, if and only if the completion percentage is strictly below 50.
C14_NotesByCompletion ==
    result # None =>
        LET notes == result.processing_notes
            is_completion_note(note) ==
                /\ Len(note) > 18 /\ SubSeq(note, 1, 17) = "Form completion: "
                /\ Ch(note, Len(note)) = "%"
            low == get_completion_percentage(result.kyc_data).v < 50 * 100
        IN /\ Len(notes) \in {1, 2}
           /\ is_completion_note(notes[1])
           /\ Cardinality({k \in 1..Len(notes) : is_completion_note(notes[k])}) = 1
           /\ Len(notes) = 2 <=> low
           /\ Len(notes) = 2 =>
                  notes[2] = "Low completion rate - consider asking for more information"

C14_OneNoteAboveHalf ==
    /\ mode = "extract" /\ pc = "extracted"
    /\ get_completion_percentage(result.kyc_data).v >= 50 * 100
    /\ result.processing_notes = <<"Form completion: 58.1%">>

\* C15: for every personal field the tiers are tried in the order entity tier, regex
\* tier over the client text, matched-answer tier, and the record holds the value of the
\* first tier that gives one: a later tier never replaces it.
C15_FirstTierWins ==
    (mode = "extract" /\ pc = "extracted") =>
        LET text == str_join(" ", processed.client_statements)
            field_matches == match_questions_to_kyc_fields(processed.qa_pairs)
            ent == IF nlp.loaded THEN first_person_entity(nlp, text) ELSE None
            entity_value(field_name) ==
                IF ent = None THEN None
                ELSE LET name_parts == str_split(ent.v, " ")
                     IN IF field_name = "first_name" THEN PyStr(name_parts[1])
                        ELSE IF field_name = "last_name" /\ Len(name_parts) >= 2
                        THEN PyStr(name_parts[Len(name_parts)])
                        ELSE None
            regex_value(field_name) ==
                IF field_name \in DOMAIN extraction_patterns
                THEN _extract_with_pattern(text, extraction_patterns[field_name], now)
                ELSE None
            answer_value(field_name) ==
                LET matches == field_matches["personal_info." \o field_name]
                IN IF Len(matches) = 0 THEN None
                   ELSE _extract_field_from_answer(field_name, matches[1].answer, now)
            first_value(field_name) ==
                IF Truthy(entity_value(field_name)) THEN entity_value(field_name)
                ELSE IF Truthy(regex_value(field_name)) THEN regex_value(field_name)
                ELSE IF Truthy(answer_value(field_name)) THEN answer_value(field_name)
                ELSE None
        IN \A k \in 1..Len(personal_fields) :
               LET field_name == last_part(personal_fields[k])
               IN result.kyc_data.personal_info[field_name] = first_value(field_name)

\* C16: the phone normalizer strips the non-digits of the value; when exactly ten digits
\* remain it returns them as (AAA) BBB-CCCC, "5551234567" giving "(555) 123-4567"; for
\* any other number of digits it returns the value unchanged, not the stripped digits.
C16_PhoneTenDigitsOrUnchanged ==
    (mode = "post" /\ args.func_name = "format_phone" /\ pc = "done") =>
        LET value == args.value
            at == {i \in 1..Len(value) : Ch(value, i) \in Digit}
            nth(k) == CHOOSE i \in at : Cardinality({j \in at : j <= i}) = k
            d(k) == Ch(value, nth(k))
        IN /\ Cardinality(at) = 10 =>
                  ret = PyStr("(" \o d(1) \o d(2) \o d(3) \o ") " \o d(4) \o d(5) \o d(6)
                              \o "-" \o d(7) \o d(8) \o d(9) \o d(10))
           /\ Cardinality(at) # 10 => ret = PyStr(value)
           /\ value = "5551234567" => ret = PyStr("(555) 123-4567")
           /\ ~raised

C16_MoreThanTenDigitsUnchanged ==
    /\ mode = "post" /\ pc = "done"
    /\ args = [value |-> "555.123.4567 x89", func_name |-> "format_phone"]
    /\ ret = PyStr("555.123.4567 x89")

\* C17: the currency normalizer removes "," and "$" from the value; if what remains
\* contains the letter k, in either case, it returns the leading number times 1,000; else
\* if it contains the letter m, in either case, the leading number times 1,000,000; else
\* the leading number; without a digit it returns no value. "50k" gives 50000,
\* "$1,200,000" gives 1200000, "2m" gives 2000000, and a value with both letters is
\* scaled by 1,000.
C17_CurrencyScaledBySuffix ==
    (mode = "post" /\ args.func_name = "parse_currency" /\ pc = "done") =>
        LET text == re_sub(<<One({",", "$"})>>, "", args.value, FALSE)
            has(letter) == \E i \in 1..Len(text) : LowerCh(Ch(text, i)) = letter
            leading == re_search(<<Plus(Digit), Maybe(<<Lit("."), Plus(Digit)>>)>>, text, FALSE)
            number == str_float(group0(text, leading))
        IN /\ ~raised
           /\ (\A i \in 1..Len(text) : Ch(text, i) \notin Digit) => ret = None
           /\ (\E i \in 1..Len(text) : Ch(text, i) \in Digit) =>
                  ret = PyFloat(IF has("k") THEN number * 1000
                                ELSE IF has("m") THEN number * 1000000
                                ELSE number)
           /\ args.value = "50k" => ret = PyFloat(50000 * 100)
           /\ args.value = "$1,200,000" => ret = PyFloat(1200000 * 100)
           /\ args.value = "2m" => ret = PyFloat(2000000 * 100)
           /\ args.value = "3k m" => ret = PyFloat(3000 * 100)

C17_UpperCaseSuffixScaled ==
    /\ mode = "post" /\ pc = "done"
    /\ args = [value |-> "2M", func_name |-> "parse_currency"]
    /\ ret = PyFloat(2000000 * 100)

\* C17 with the letters looked for as they are written in the claim, in lower case only:
\* a value with a "K" or an "M" is then not scaled.
C17_CurrencyScaledByLowerCaseSuffix ==
    (mode = "post" /\ args.func_name = "parse_currency" /\ pc = "done") =>
        LET text == re_sub(<<One({",", "$"})>>, "", args.value, FALSE)
            has(letter) == \E i \in 1..Len(text) : Ch(text, i) = letter
            leading == re_search(<<Plus(Digit), Maybe(<<Lit("."), Plus(Digit)>>)>>, text, FALSE)
            number == str_float(group0(text, leading))
        IN /\ (\A i \in 1..Len(text) : Ch(text, i) \notin Digit) => ret = None
           /\ (\E i \in 1..Len(text) : Ch(text, i) \in Digit) =>
                  ret = PyFloat(IF has("k") THEN number * 1000
                                ELSE IF has("m") THEN number * 1000000
                                ELSE number)

\* C18: match_questions_to_kyc_fields returns a list for every field of the pattern
\* table; the list of a field holds, in their input order and once each, exactly the
\* pairs whose question matches at least one pattern of the field, so a pair may be in
\* the lists of several fields and a pair whose question matches no pattern is in none;
\* the answer of a pair has no part in it.
C18_PairsListedByQuestion ==
    (mode = "match" /\ pc = "done") =>
        LET pairs == args.qa_pairs
            asks(entry, pair) ==
                \E j \in 1..Len(entry.patterns) :
                    re_search(entry.patterns[j], str_lower(pair.question), TRUE).ok
        IN /\ DOMAIN ret
                  = {kyc_question_patterns[k].field : k \in 1..Len(kyc_question_patterns)}
           /\ \A k \in 1..Len(kyc_question_patterns) :
                  ret[kyc_question_patterns[k].field]
                      = SelectSeq(pairs, LAMBDA pair : asks(kyc_question_patterns[k], pair))
           /\ pairs = TestPairs =>
                  /\ ret["personal_info.first_name"] = <<TestPairs[1]>>
                  /\ ret["personal_info.email"] = <<TestPairs[2]>>
                  /\ ret["employment_info.annual_income"] = <<TestPairs[3]>>
                  /\ \A f \in DOMAIN ret : \A n \in 1..Len(ret[f]) : ret[f][n] # TestPairs[4]

C18_OnePairUnderTwoFields ==
    /\ mode = "match" /\ pc = "done"
    /\ args.qa_pairs = <<[question |-> "Anything else", answer |-> "what is your first name"],
                         [question |-> "Your NAME, first and last name please",
                          answer |-> "Al Lee"]>>
    /\ ret["personal_info.first_name"] = <<args.qa_pairs[2]>>
    /\ ret["personal_info.last_name"] = <<args.qa_pairs[2]>>
    /\ \A f \in DOMAIN ret : \A n \in 1..Len(ret[f]) : ret[f][n] # args.qa_pairs[1]

\* C19: the output of clean_transcript holds no [HH:MM:SS] timestamp, no [inaudible],
\* [unclear] or [crosstalk] marker in any letter case, none of the filler words and
\* phrases as whole words, no whitespace at either end and no run of two whitespace
\* characters; the empty transcript gives the empty output.
C19_CleanedHoldsNoNoise ==
    pc = "cleaned" =>
        /\ ~re_search(timestamp_pattern, cleaned, FALSE).ok
        /\ ~re_search(artifact_pattern, cleaned, TRUE).ok
        /\ \A k \in 1..Len(filler_patterns) : ~re_search(filler_patterns[k], cleaned, TRUE).ok
        /\ Len(cleaned) > 0 => (Ch(cleaned, 1) \notin Space /\ Ch(cleaned, Len(cleaned)) \notin Space)
        /\ \A i \in 1..(Len(cleaned) - 1) : ~(Ch(cleaned, i) \in Space /\ Ch(cleaned, i + 1) \in Space)
        /\ raw = "" => cleaned = ""

\* C20: in extract_qa_pairs a question that arrives while an earlier question is held
\* replaces it: the pairs are exactly, in order, the questions directly followed by an
\* answer (statements apart) with that answer, so a question followed by another
\* question is in no pair; Q1, Q2, A gives exactly the pair (Q2, A).
C20_LatestQuestionPaired ==
    mode = "link" =>
        LET read == 1..(seg_i - 1)
            turns == {i \in read : segments[i].segment_type \in {"question", "answer"}}
            next(q) == CHOOSE a \in turns : a > q /\ \A t \in turns : t > q => a <= t
            paired == {q \in turns : /\ segments[q].segment_type = "question"
                                      /\ segments[q].content # ""
                                      /\ \E a \in turns : a > q
                                      /\ segments[next(q)].segment_type = "answer"}
            nth(k) == CHOOSE q \in paired : Cardinality({r \in paired : r <= q}) = k
        IN /\ qa_pairs = [k \in 1..Cardinality(paired) |->
                              [question |-> segments[nth(k)].content,
                               answer |-> segments[next(nth(k))].content]]
           /\ (/\ seg_i > 3
               /\ segments[1].segment_type = "question" /\ segments[1].content # ""
               /\ segments[2].segment_type = "question" /\ segments[2].content # ""
               /\ segments[3].segment_type = "answer")
              => SubSeq(qa_pairs, 1, 1) = <<[question |-> segments[2].content,
                                             answer |-> segments[3].content]>>

C20_SecondOfTwoQuestionsPaired ==
    /\ mode = "link" /\ pc = "done" /\ Len(segments) = 3
    /\ segments[1].content = "Q1?" /\ segments[2].content = "Q2?" /\ segments[3].content = "A1"
    /\ qa_pairs = <<[question |-> "Q2?", answer |-> "A1"]>>

\* C21: statements leave the state of extract_qa_pairs as it is: the held question and
\* the pairs made of the utterances read so far are those made of the same utterances
\* with every statement taken out, so statements put in or taken out anywhere change
\* no pair; a question, a statement, an answer give the pair of the question and the
\* answer.
C21_StatementsChangeNoPair ==
    mode = "link" =>
        LET turn(seg) == seg.segment_type \in {"question", "answer"}
            turns == SelectSeq(SubSeq(segments, 1, seg_i - 1), turn)
            st == link_from([current_question |-> None, qa_pairs |-> <<>>], turns)
        IN /\ qa_pairs = st.qa_pairs
           /\ current_question = st.current_question
           /\ (/\ seg_i > 3
               /\ segments[1].segment_type = "question" /\ segments[1].content # ""
               /\ segments[2].segment_type = "statement"
               /\ segments[3].segment_type = "answer")
              => SubSeq(qa_pairs, 1, 1) = <<[question |-> segments[1].content,
                                             answer |-> segments[3].content]>>

C21_StatementBetweenQuestionAndAnswer ==
    /\ mode = "link" /\ pc = "done" /\ Len(segments) = 4
    /\ segments[1].content = "Q1?"
    /\ segments[2].speaker = "unknown" /\ segments[2].segment_type = "statement"
    /\ segments[3].content = "Thanks."
    /\ segments[4].content = "A1"
    /\ qa_pairs = <<[question |-> "Q1?", answer |-> "A1"]>>

\* C22: in extract_qa_pairs an answer that follows a question, no other question or
\* answer between the two, makes the pair of that question and that answer, and no
\* question is held after it, whatever the contents of the utterances, the empty
\* string included.
C22_AnswerAfterQuestionPaired ==
    mode = "link" =>
        LET read == 1..(seg_i - 1)
            turns == {i \in read : segments[i].segment_type \in {"question", "answer"}}
            asked(a) == {q \in turns : /\ q < a
                                       /\ segments[q].segment_type = "question"
                                       /\ \A t \in turns : t < a => t <= q}
        IN \A a \in turns : \A q \in asked(a) :
               segments[a].segment_type = "answer" =>
                   /\ \E k \in 1..Len(qa_pairs) :
                          qa_pairs[k] = [question |-> segments[q].content,
                                         answer |-> segments[a].content]
                   /\ a = seg_i - 1 => current_question = None

\* C23: in the matched-answer tier of extract_personal_info a personal field with
\* matched pairs takes the value parsed from the answer of the first matched pair; when
\* that answer gives no value, or no pair is matched, the field keeps what the entity
\* and regex tiers left, a value or none: the answers of later matched pairs are not
\* read.
C23_FirstMatchedAnswerOnly ==
    (mode = "extract" /\ pc = "extracted" /\ ~raised) =>
        LET text == str_join(" ", processed.client_statements)
            earlier == regex_tier(entity_tier(Building(PersonalInfo), text, nlp),
                                  extraction_pattern_names, text, now, 1).rec
            asked(field_path) ==
                {i \in 1..Len(processed.qa_pairs) :
                    \E k \in 1..Len(kyc_question_patterns) :
                        /\ kyc_question_patterns[k].field = field_path
                        /\ question_matches(kyc_question_patterns[k].patterns,
                                            processed.qa_pairs[i])}
            first(field_path) == CHOOSE i \in asked(field_path) : \A j \in asked(field_path) : i <= j
        IN \A k \in 1..Len(personal_fields) :
               LET field_path == personal_fields[k]
                   field_name == last_part(field_path)
                   value == _extract_field_from_answer(field_name,
                                processed.qa_pairs[first(field_path)].answer, now)
               IN result.kyc_data.personal_info[field_name]
                      = IF asked(field_path) # {} /\ Truthy(value) THEN value
                        ELSE earlier[field_name]

C23_LaterAnswersNotRead ==
    /\ mode = "extract" /\ pc = "extracted" /\ ~raised
    /\ Len(processed.qa_pairs) = 4
    /\ processed.qa_pairs[1] = [question |-> "Are you married?", answer |-> "no comment"]
    /\ processed.qa_pairs[3] = [question |-> "marital status?", answer |-> "single"]
    /\ processed.qa_pairs[2] = [question |-> "What is your email?", answer |-> "pass"]
    /\ result.kyc_data.personal_info.marital_status = None
    /\ result.kyc_data.personal_info.email = PyStr("al@x.io")

\* C24: an income or a net worth the client states with a k or an m after the number is
\* stored by extract_employment_info as the number times 1,000 or 1,000,000: 80000.0 for
\* "I earn 80k" and for "$80k a year", 2000000.0 for "worth 2m".
C24_SuffixedAmountScaled ==
    (mode = "extract" /\ pc = "extracted") =>
        /\ raw = "Advisor: What is your income?\nClient: I earn 80k"
               => result.kyc_data.employment_info.annual_income = PyFloat(80000 * 100)
        /\ raw = "Client: $80k a year, worth 2m"
               => /\ result.kyc_data.employment_info.annual_income = PyFloat(80000 * 100)
                  /\ result.kyc_data.employment_info.net_worth = PyFloat(2000000 * 100)

\* C25: the date normalizer returns the date of the first M/D/YYYY in the value when it
\* is a date of the calendar, else the date of the first M-D-YYYY when that is one, else
\* January 1 of the current year less N for an age phrase "N years old", else no value;
\* it raises for no value, a month, a day or a year out of range included.
C25_DateSlashThenDashThenAge ==
    (mode = "post" /\ pc = "done" /\ args.func_name = "parse_date") =>
        LET value == args.value
            days(y, m) == IF m = 2 THEN (IF (y % 4 = 0 /\ y % 100 # 0) \/ y % 400 = 0 THEN 29 ELSE 28)
                          ELSE IF m \in {4, 6, 9, 11} THEN 30 ELSE 31
            month(m) == str_int(group(value, m, 1))
            day(m) == str_int(group(value, m, 2))
            year(m) == str_int(group(value, m, 3))
            valid(m) == /\ m.ok
                        /\ year(m) \in 1..9999 /\ month(m) \in 1..12
                        /\ day(m) \in 1..days(year(m), month(m))
            slash == re_search(date_patterns[1], value, FALSE)
            dash == re_search(date_patterns[2], value, FALSE)
            age == re_search(age_pattern, value, FALSE)
        IN /\ ~raised /\ ~IsRaise(ret)
           /\ ret = IF valid(slash) THEN PyDate(year(slash), month(slash), day(slash))
                    ELSE IF valid(dash) THEN PyDate(year(dash), month(dash), day(dash))
                    ELSE IF age.ok THEN PyDate(now.year - str_int(group(value, age, 1)), 1, 1)
                    ELSE None
           /\ value = "1/2/1990 or 3-4-1991" => ret = PyDate(1990, 1, 2)
           /\ value = "2/30/1990 or 3-4-1991" => ret = PyDate(1991, 3, 4)
           /\ value \in {"1-1-0000", "0/0/2000", "2/29/1900", ""} => ret = None

C25_AgeAfterTwoInvalidDates ==
    /\ mode = "post" /\ pc = "done" /\ ~raised
    /\ args = [value |-> "13/45/2000, 1-1-0000, 35 years old", func_name |-> "parse_date"]
    /\ ret = PyDate(now.year - 35, 1, 1)

\* C26: employment status, risk tolerance and investment objective are each the first
\* category, in the order of its table, one of whose keywords occurs in the lower-cased
\* client text; with keywords of several categories in the text the earlier category
\* wins, with none the field is unset.
C26_FirstCategoryInTableOrder ==
    (mode = "sections" /\ pc = "done") =>
        LET text_lower == str_lower(args.text)
            hits(table) == {k \in 1..Len(table) :
                               \E j \in 1..Len(table[k].keywords) :
                                   str_contains(text_lower, table[k].keywords[j])}
            stored(table) == IF hits(table) = {} THEN None
                             ELSE PyEnum(table[CHOOSE k \in hits(table) :
                                                   \A h \in hits(table) : k <= h].value)
        IN /\ ret.employment_info.employment_status = stored(employment_keywords)
           /\ ret.investment_profile.risk_tolerance = stored(risk_keywords)
           /\ ret.investment_profile.investment_objective = stored(objective_keywords)
           /\ args.text = "nothing here" =>
                  /\ ret.employment_info.employment_status = None
                  /\ ret.investment_profile.risk_tolerance = None
                  /\ ret.investment_profile.investment_objective = None

C26_EarlierCategoryWins ==
    /\ mode = "sections" /\ pc = "done"
    /\ args.text = "school of speculation, moderate"
    /\ ret.employment_info.employment_status = PyEnum("STUDENT")
    /\ ret.investment_profile.risk_tolerance = PyEnum("MODERATE")
    /\ ret.investment_profile.investment_objective = PyEnum("SPECULATION")

\* C27: a client text that is exactly a keyword of the employment-status table or of the
\* risk-tolerance table is given the category the keyword is listed under.
C27_KeywordSelectsItsCategory ==
    (mode = "sections" /\ pc = "done") =>
        /\ \A k \in 1..Len(employment_keywords) :
               \A j \in 1..Len(employment_keywords[k].keywords) :
                   args.text = employment_keywords[k].keywords[j]
                       => ret.employment_info.employment_status
                              = PyEnum(employment_keywords[k].value)
        /\ \A k \in 1..Len(risk_keywords) :
               \A j \in 1..Len(risk_keywords[k].keywords) :
                   args.text = risk_keywords[k].keywords[j]
                       => ret.investment_profile.risk_tolerance = PyEnum(risk_keywords[k].value)

\* C29: investment_experience_years of an extracted record is unset or an integer from
\* 0 to 80, the range of validate_experience.
C29_ExperienceWithinValidatorRange ==
    (result # None) =>
        \/ result.kyc_data.investment_profile.investment_experience_years = None
        \/ /\ result.kyc_data.investment_profile.investment_experience_years.ty = "int"
           /\ result.kyc_data.investment_profile.investment_experience_years.v \in 0..80

\* C28: every key of the confidence map returned by extract_kyc_data is the dot-path of
\* a field declared in the record: the name of one of the sections personal_info,
\* address, employment_info and investment_profile, a dot, and the name of a field of
\* the model of that section.
C28_ConfidenceKeysAreRecordFields ==
    (result # None) =>
        LET schema == [personal_info |-> DOMAIN PersonalInfo, address |-> DOMAIN Address,
                       employment_info |-> DOMAIN EmploymentInfo,
                       investment_profile |-> DOMAIN InvestmentProfile]
        IN \A field_path \in DOMAIN result.confidence_scores :
               LET parts == str_split(field_path, ".")
               IN /\ Len(parts) = 2
                  /\ parts[1] \in DOMAIN schema
                  /\ parts[2] \in schema[parts[1]]
                  /\ parts[2] \in DOMAIN result.kyc_data[parts[1]]

\* C30: process_transcript_to_pdf raises nothing, and in the dictionary it returns
\* success is true iff pdf_filled is true iff errors is empty; pdf_filled is true only
\* when the transcript was read and extracted, kyc_data and extraction_result then
\* being set; a failure before the extraction leaves kyc_data unset, pdf_filled false
\* and completion_percentage 0.0.
C30_SuccessIffFilledIffNoError ==
    (mode = "pdf" /\ pc = "done") =>
        /\ ~raised
        /\ DOMAIN ret = {"success", "kyc_data", "extraction_result", "pdf_filled",
                         "completion_percentage", "processing_notes", "errors"}
        /\ ret.success \in BOOLEAN /\ ret.pdf_filled \in BOOLEAN
        /\ ret.success <=> ret.pdf_filled
        /\ ret.success <=> (ret.errors = <<>>)
        /\ ret.pdf_filled =>
               /\ args.read.exc = None /\ args.pdf_success
               /\ ret.kyc_data # None /\ ret.extraction_result # None
               /\ ret.kyc_data = ret.extraction_result.kyc_data
        /\ args.read.exc # None =>
               /\ ret.kyc_data = None /\ ret.extraction_result = None
               /\ ~ret.pdf_filled
               /\ ret.completion_percentage = PyFloat(0)
               /\ Len(ret.errors) = 1

C30_FilledAfterExtraction ==
    /\ mode = "pdf" /\ pc = "done"
    /\ args.read.text = IncomeTranscript /\ args.template = "missing"
    /\ ret.success /\ ret.pdf_filled /\ ret.errors = <<>>
    /\ ret.kyc_data # None
    /\ Len(ret.processing_notes) >= 4

====
